---- MODULE Spec2Model ----
(***************************************************************************)
(* Verification model of the agent-os workflow hooks: the intent           *)
(* classifier (hooks/intent_analyzer.py), the context-aware hook           *)
(* (hooks/context_aware_hook.py) and the manual override system            *)
(* (hooks/manual_override_system.py).                                      *)
(***************************************************************************)
EXTENDS Integers, Sequences, FiniteSets, TLC

VARIABLES
    pc,                 \* position of the decision cycle
    env_work_type,      \* os.environ["AGENT_OS_WORK_TYPE"] ("" when unset)
    env_bypass,         \* os.environ["AGENT_OS_BYPASS"] = "true"
    tool,               \* <<tool_name, tool_input.command>> of the hook input
    user_message,       \* input_data["user_message"], a sequence of tokens
    git_out,            \* outcome of `git status --porcelain`
    pr_out,             \* outcome of `gh pr list --state open --json number`
    workspace_state,    \* the dict check_workspace_state returns
    intent,             \* the WorkIntentResult of the last analyze_intent call
    should_allow,       \* what should_allow_work returned ("none" before)
    exit_code,          \* what process_hook returned (-1 before)
    stderr_out,         \* TRUE when guidance was printed to stderr
    reads,              \* number of input() calls made by the hook's prompt
    response,           \* what the hook's prompt read last
    override_source,    \* where the OverrideDecision came from
    args,               \* the argument list given to parse_override_args
    allow_manual_override, \* OverrideConfig.allow_manual_override
    attempt,            \* loop variable of prompt_for_disambiguation
    prompt_reads,       \* number of input() calls made by prompt_for_disambiguation
    choice,             \* what prompt_for_disambiguation read last
    override_decision,  \* OverrideDecision.override_type
    hook_result,        \* HookDecisionResult of apply_override_to_hook_decision
    \* one run of a hook script (main and its dispatcher)
    dispatcher,         \* which script runs
    hook_type,          \* sys.argv[1]
    input_ok,           \* json.load(sys.stdin) succeeded
    handler_outcome,    \* how the handler of the hook type ends
    process_exit,       \* exit status of the process (-1 while running)
    traceback,          \* TRUE when an exception left main uncaught
    \* one workflow status check (check_workflow_status and its variants)
    impl,               \* which implementation runs
    env_work_session,   \* os.environ["AGENT_OS_WORK_SESSION"] is "true"
    session_file,       \* ~/.agent-os/cache/work-session exists
    git_run,            \* what running `git status --porcelain` gives
    pr_run,             \* what running `gh pr list ...` gives
    pending,            \* the checks still to run
    git_calls,          \* invocations of the uncommitted-changes check
    pr_calls,           \* invocations of the open-PR check
    reported_changes,   \* boolean the uncommitted-changes check reported
    reported_prs,       \* boolean the open-PR check reported
    issues,             \* the issues collected
    status_raised,      \* TRUE when an exception left the status check
    \* one PreToolHandler.handle call (modules/pretool_handler.py)
    env_intent,         \* os.environ["AGENT_OS_INTENT"] ("" when unset)
    doc_run,            \* what running update-documentation.sh gives
    intent_run,         \* what running intent-analyzer.sh gives
    spec_run,           \* what running the spec listing gives
    ran,                \* the auxiliary checks that were run
    pt_intent,          \* what IntentAnalyzer.get_intent returned
    \* the TTL caches
    cache_impl,         \* which cache implementation is used
    now,                \* time.time()
    cache,              \* _cache: key -> value ("absent" when the key is missing)
    timestamps,         \* _timestamps: key -> time (-1 when the key is missing)
    stored,             \* per key, the value and time of the last set, the
                        \* time of the set it replaced, and whether the last
                        \* command run for the key failed
    last_get,           \* the last lookup: its arguments and what it returned
    lock,               \* _lock: the thread holding it, 0 when free
    tpc,                \* per thread, its position in get or set
    top,                \* per thread, the call it is executing
    tlocal,             \* per thread, the (value, timestamp) pair it has read
    tres,               \* per thread, what its last call returned
    ops_done,           \* per thread, the number of calls it has completed
    set_values,         \* per key, the values passed to set so far
    \* the subagent detector
    context,            \* the context passed to detect
    detected,           \* what the last detect call returned
    first_detected,     \* what the first detect call returned
    detect_calls,       \* the number of detect calls made
    last_scores,        \* the score table the last detect call computed
    \* the project root resolver
    CLAUDE_PROJECT_DIR, \* the environment variable
    resolver_cache,     \* ProjectRootResolver._cache
    resolved,           \* what the last resolve call returned
    first_resolved,     \* what the first resolve call since clear_cache returned
    last_resolve        \* the last resolve call since clear_cache: whether it
                        \* came after another one, and the root its arguments
                        \* and the environment of the call give

cycle_vars == <<pc, env_work_type, env_bypass, tool, user_message, git_out, pr_out,
                workspace_state, intent, should_allow, exit_code, stderr_out, reads,
                response, override_source, args, allow_manual_override, attempt,
                prompt_reads, choice, override_decision, hook_result>>

cycle_vars_but_pc ==
    <<env_work_type, env_bypass, tool, user_message, git_out, pr_out, workspace_state,
      intent, should_allow, exit_code, stderr_out, reads, response, override_source,
      args, allow_manual_override, attempt, prompt_reads, choice, override_decision,
      hook_result>>

dispatch_vars == <<dispatcher, hook_type, input_ok, handler_outcome, process_exit,
                   traceback>>

status_vars == <<impl, env_work_session, session_file, git_run, pr_run, pending,
                 git_calls, pr_calls, reported_changes, reported_prs, issues,
                 status_raised>>

pretool_vars == <<env_intent, doc_run, intent_run, spec_run, ran, pt_intent>>

thread_vars == <<lock, tpc, top, tlocal, tres, ops_done, set_values>>

cache_vars == <<cache_impl, now, cache, timestamps, stored, last_get, thread_vars>>

detector_vars == <<context, detected, first_detected, detect_calls, last_scores>>

resolver_vars == <<CLAUDE_PROJECT_DIR, resolver_cache, resolved, first_resolved, last_resolve>>

lib_vars == <<detector_vars, resolver_vars>>

\* the variables outside the decision cycle
aux_vars == <<dispatch_vars, status_vars, pretool_vars, cache_vars, lib_vars>>

vars == <<cycle_vars, aux_vars>>

\* no hook script is running
DispatchIdle ==
    /\ dispatcher = "none"
    /\ hook_type = "none"
    /\ input_ok = TRUE
    /\ handler_outcome = "none"
    /\ process_exit = -1
    /\ traceback = FALSE

\* subprocess.run gave a CompletedProcess, or raised
Completed(rc, out) == [kind |-> "completed", returncode |-> rc, stdout |-> out]
TimeoutExpired == [kind |-> "TimeoutExpired", returncode |-> -1, stdout |-> ""]
OSErrorRaised == [kind |-> "OSError", returncode |-> -1, stdout |-> ""]

\* no status check is running
StatusIdle ==
    /\ impl = "none"
    /\ env_work_session = FALSE
    /\ session_file = FALSE
    /\ git_run = Completed(0, "")
    /\ pr_run = Completed(0, "[]")
    /\ pending = {}
    /\ git_calls = 0
    /\ pr_calls = 0
    /\ reported_changes = "unset"
    /\ reported_prs = "unset"
    /\ issues = {}
    /\ status_raised = FALSE

\* no PreToolHandler is running
PretoolIdle ==
    /\ env_intent = ""
    /\ doc_run = Completed(0, "")
    /\ intent_run = Completed(0, "AMBIGUOUS")
    /\ spec_run = Completed(0, "0")
    /\ ran = {}
    /\ pt_intent = "none"

Keys == {"k1", "k2"}

Values == {"v1", "v2"}

\* ttl=None of TTLCache.get
NoneTtl == -1

NoGet == [key |-> "none", ttl |-> NoneTtl, result |-> "absent", elapsed |-> -1,
          expected |-> "absent", present |-> FALSE, outlived |-> FALSE,
          after_failure |-> FALSE]

NeverSet == [value |-> "absent", at |-> -1, replaced_at |-> -1, failed |-> FALSE]

Threads == {1, 2}

NoCall == [kind |-> "none", key |-> "none", ttl |-> NoneTtl, value |-> "absent"]

\* no thread is inside the cache
ThreadsIdle ==
    /\ lock = 0
    /\ tpc = [t \in Threads |-> "idle"]
    /\ top = [t \in Threads |-> NoCall]
    /\ tlocal = [t \in Threads |-> [value |-> "absent", timestamp |-> -1]]
    /\ tres = [t \in Threads |-> "none"]
    /\ ops_done = [t \in Threads |-> 0]
    /\ set_values = [k \in Keys |-> {}]

\* an empty cache at time 0
CacheEmpty ==
    /\ ThreadsIdle
    /\ now = 0
    /\ cache = [k \in Keys |-> "absent"]
    /\ timestamps = [k \in Keys |-> -1]
    /\ stored = [k \in Keys |-> NeverSet]
    /\ last_get = NoGet

\* no cache is in use
CacheIdle == cache_impl = "none" /\ CacheEmpty

NoContext == [kind |-> "none", prompt |-> <<>>, operation |-> "", flags |-> {}]

NoDetection == [agent |-> "none", confidence |-> 0, warning |-> FALSE, raised |-> FALSE]

\* no score table was computed
NoScores == [agent \in {} |-> 0]

\* the detector has not been called
DetectorIdle ==
    /\ context = NoContext
    /\ detected = NoDetection
    /\ first_detected = NoDetection
    /\ detect_calls = 0
    /\ last_scores = NoScores

NoResolve == [called |-> FALSE, repeat |-> FALSE, fresh |-> "none"]

\* a new resolver: self._cache = None
ResolverNew ==
    /\ resolver_cache = "None"
    /\ resolved = "none"
    /\ first_resolved = "none"
    /\ last_resolve = NoResolve

\* no resolver is in use
ResolverIdle == CLAUDE_PROJECT_DIR = "" /\ ResolverNew

LibIdle == DetectorIdle /\ ResolverIdle

AuxIdle == DispatchIdle /\ StatusIdle /\ PretoolIdle /\ CacheIdle /\ LibIdle

-----------------------------------------------------------------------------
(* Text.  A message is a sequence of tokens: a token is a maximal run of    *)
(* word characters (a word), or a separator, " " or "\n".  Two adjacent     *)
(* words are separated by one blank.                                        *)

Separators == {" ", "\n"}

IsWord(t) == t \notin Separators

\* str.lower() on one token
Lower(t) ==
    CASE t = "FIX" -> "fix"
      [] t = "Tests" -> "tests"
      [] t = "DEBUG" -> "debug"
      [] OTHER -> t

\* Index of the first / last non-separator token, 0 when there is none
RECURSIVE FirstWord(_, _)
FirstWord(s, i) ==
    IF i > Len(s) THEN 0
    ELSE IF IsWord(s[i]) THEN i ELSE FirstWord(s, i + 1)

RECURSIVE LastWord(_, _)
LastWord(s, i) ==
    IF i < 1 THEN 0
    ELSE IF IsWord(s[i]) THEN i ELSE LastWord(s, i - 1)

\* str.strip(): drop leading and trailing whitespace
Strip(s) ==
    IF FirstWord(s, 1) = 0 THEN <<>>
    ELSE SubSeq(s, FirstWord(s, 1), LastWord(s, Len(s)))

\* str.lower() on a message
LowerAll(s) == [i \in 1..Len(s) |-> Lower(s[i])]

\* str.startswith on the words of the vocabulary
StartsWith(t, p) ==
    CASE p = "fail" -> t \in {"fail", "failing", "failed", "fails"}
      [] p = "brok" -> t \in {"broken", "broke"}
      [] p = "dependen" -> t \in {"dependency", "dependencies"}
      [] OTHER -> t = p

-----------------------------------------------------------------------------
(* Pattern tables.  Every default pattern has one of three shapes:          *)
(*   single   \bA\b                 some token is A                         *)
(*   seq      \bA\b.*\bB\b          A, then later on the same line a B      *)
(*            \bA\b.*\bB            (prefix: a token starting with B)       *)
(*   notafter \bA\b(?!.*\bB\b)      an A with no B later on the same line   *)

Pat(id, kind, first, second, prefix) ==
    [id |-> id, kind |-> kind, first |-> first, second |-> second, prefix |-> prefix]

maintenance_patterns == <<
    Pat("\\bfix\\b.*\\btests?\\b", "seq", "fix", {"test", "tests"}, FALSE),
    Pat("\\bfix\\b.*\\bbug\\b", "seq", "fix", {"bug"}, FALSE),
    Pat("\\bfix\\b.*\\bissues?\\b", "seq", "fix", {"issue", "issues"}, FALSE),
    Pat("\\bfix\\b.*\\berrors?\\b", "seq", "fix", {"error", "errors"}, FALSE),
    Pat("\\bfix\\b.*\\bfail", "seq", "fix", {"fail"}, TRUE),
    Pat("\\bdebug\\b", "single", "debug", {}, FALSE),
    Pat("\\bresolve\\b.*\\bconflicts?\\b", "seq", "resolve", {"conflict", "conflicts"}, FALSE),
    Pat("\\baddress\\b.*\\bci\\b", "seq", "address", {"ci"}, FALSE),
    Pat("\\baddress\\b.*\\bpipeline\\b", "seq", "address", {"pipeline"}, FALSE),
    Pat("\\bupdate\\b.*\\bdependen", "seq", "update", {"dependen"}, TRUE),
    Pat("\\brefactor\\b(?!.*\\bnew\\b)", "notafter", "refactor", {"new"}, FALSE),
    Pat("\\bfix\\b.*\\bstyles?\\b", "seq", "fix", {"style", "styles"}, FALSE),
    Pat("\\bfix\\b.*\\bbrok", "seq", "fix", {"brok"}, TRUE),
    Pat("\\bresolve\\b.*\\berrors?\\b", "seq", "resolve", {"error", "errors"}, FALSE),
    Pat("\\bfix\\b.*\\bperformance\\b", "seq", "fix", {"performance"}, FALSE),
    Pat("\\bfix\\b.*\\bvalidation\\b", "seq", "fix", {"validation"}, FALSE),
    Pat("\\brepair\\b", "single", "repair", {}, FALSE),
    Pat("\\bcorrect\\b", "single", "correct", {}, FALSE),
    Pat("\\bmend\\b", "single", "mend", {}, FALSE),
    Pat("\\bpatch\\b", "single", "patch", {}, FALSE) >>

new_work_patterns == <<
    Pat("\\bimplement\\b.*\\bfeature\\b", "seq", "implement", {"feature"}, FALSE),
    Pat("\\bimplement\\b.*\\bfunctionality\\b", "seq", "implement", {"functionality"}, FALSE),
    Pat("\\bbuild\\b.*\\bnew\\b", "seq", "build", {"new"}, FALSE),
    Pat("\\bcreate\\b.*\\bfeature\\b", "seq", "create", {"feature"}, FALSE),
    Pat("\\bcreate\\b.*\\bcomponent\\b", "seq", "create", {"component"}, FALSE),
    Pat("\\bcreate\\b.*\\bsystem\\b", "seq", "create", {"system"}, FALSE),
    Pat("\\bcreate\\b.*\\binterface\\b", "seq", "create", {"interface"}, FALSE),
    Pat("\\badd\\b.*\\bfeature\\b", "seq", "add", {"feature"}, FALSE),
    Pat("\\badd\\b.*\\bfunctionality\\b", "seq", "add", {"functionality"}, FALSE),
    Pat("\\badd\\b.*\\bsystem\\b", "seq", "add", {"system"}, FALSE),
    Pat("\\bdevelop\\b.*\\b(feature|system|interface|component)\\b", "seq", "develop",
        {"feature", "system", "interface", "component"}, FALSE),
    Pat("\\bdesign\\b.*\\b(feature|system|interface|component)\\b", "seq", "design",
        {"feature", "system", "interface", "component"}, FALSE),
    Pat("\\bbuild\\b.*\\b(dashboard|interface|system|feature)\\b", "seq", "build",
        {"dashboard", "interface", "system", "feature"}, FALSE),
    Pat("\\bimplement\\b.*\\b(oauth|auth|login|signup)\\b", "seq", "implement",
        {"oauth", "auth", "login", "signup"}, FALSE),
    Pat("\\bcreate\\b.*\\b(api|endpoint|service)\\b", "seq", "create",
        {"api", "endpoint", "service"}, FALSE),
    Pat("\\badd\\b.*\\b(search|notification|integration)\\b", "seq", "add",
        {"search", "notification", "integration"}, FALSE) >>

\* A token matches the second part of a pattern
MatchesSecond(t, p) ==
    IF p.prefix THEN \E b \in p.second : StartsWith(t, b) ELSE t \in p.second

\* tokens i+1..j-1 hold no newline ("." does not match "\n")
SameLine(msg, i, j) == \A k \in (i + 1)..(j - 1) : msg[k] # "\n"

\* re.Pattern.search(message) for one compiled pattern
Search(p, msg) ==
    CASE p.kind = "single" -> \E i \in 1..Len(msg) : msg[i] = p.first
      [] p.kind = "seq" ->
            \E i \in 1..Len(msg) : \E j \in (i + 1)..Len(msg) :
                /\ msg[i] = p.first
                /\ MatchesSecond(msg[j], p)
                /\ SameLine(msg, i, j)
      [] p.kind = "notafter" ->
            \E i \in 1..Len(msg) :
                /\ msg[i] = p.first
                /\ ~ \E j \in (i + 1)..Len(msg) :
                        MatchesSecond(msg[j], p) /\ SameLine(msg, i, j)

\* IntentAnalyzer._find_pattern_matches: the ids of the matching patterns, in
\* table order
RECURSIVE find_from(_, _, _)
find_from(msg, patterns, k) ==
    IF k > Len(patterns) THEN <<>>
    ELSE (IF Search(patterns[k], msg) THEN <<patterns[k].id>> ELSE <<>>)
         \o find_from(msg, patterns, k + 1)

\* a matcher that reports every matching pattern twice
find_pattern_matches_twice(msg, patterns) ==
    find_from(msg, patterns, 1) \o find_from(msg, patterns, 1)

find_pattern_matches(msg, patterns) == find_from(msg, patterns, 1)

-----------------------------------------------------------------------------
(* Confidence arithmetic.  The code computes in binary64; the model keeps   *)
(* the exact value as an integer number of 1/ConfScale units together with  *)
(* the sign of the rounding error of the binary64 result, which decides     *)
(* the comparisons where the exact values tie.                              *)

Max(a, b) == IF b > a THEN b ELSE a

confidence_threshold_tenths == 6

TableLen(patterns) == Max(1, Len(patterns))

ConfScale == 10 * TableLen(maintenance_patterns) * TableLen(new_work_patterns)

\* <<m, N>> for which min(1.0, (m / N) * (1 + m * 0.1)) in binary64 lies above
\* (below) the exact rational value
RoundedAbove ==
    {<<1, 20>>, <<3, 20>>, <<8, 20>>,
     <<1, 16>>, <<3, 16>>, <<6, 16>>, <<7, 16>>, <<8, 16>>}

RoundedBelow ==
    {<<2, 20>>, <<4, 20>>, <<6, 20>>, <<7, 20>>, <<9, 20>>,
     <<2, 16>>, <<4, 16>>}

RoundingSign(m, n) ==
    IF <<m, n>> \in RoundedAbove THEN 1
    ELSE IF <<m, n>> \in RoundedBelow THEN -1 ELSE 0

\* the confidence without the bonus for the number of matches
Confidence_raw_score(m, n) ==
    [val |-> (m * ConfScale) \div n, err |-> 0]

\* min(1.0, score * (1 + len(matches) * 0.1)) with score = len(matches) / max(1, N)
Confidence(m, n) ==
    LET exact == (m * (10 + m) * ConfScale) \div (10 * n)
    IN  IF exact >= ConfScale THEN [val |-> ConfScale, err |-> 0]
        ELSE [val |-> exact, err |-> RoundingSign(m, n)]

\* a > b on floats
Greater(a, b) == a.val > b.val \/ (a.val = b.val /\ a.err > b.err)

\* a < b on floats
Less(a, b) == Greater(b, a)

\* max(a, b) on floats
FloatMax(a, b) == IF Greater(b, a) THEN b ELSE a

\* self.confidence_threshold: the binary64 nearest to 0.6 lies below 6/10
confidence_threshold ==
    [val |-> (confidence_threshold_tenths * ConfScale) \div 10, err |-> -1]

Zero == [val |-> 0, err |-> 0]

\* _determine_intent choosing MAINTENANCE above the threshold without comparing
\* the two confidences
determine_intent_maintenance_first(maintenance_matches, new_work_matches) ==
    LET maintenance_confidence ==
            Confidence(Len(maintenance_matches), TableLen(maintenance_patterns))
        new_work_confidence ==
            Confidence(Len(new_work_matches), TableLen(new_work_patterns))
    IN  IF Greater(maintenance_confidence, confidence_threshold)
        THEN [intent_type |-> "MAINTENANCE",
              confidence |-> maintenance_confidence,
              matched_patterns |-> maintenance_matches,
              reasoning |-> "Matched maintenance patterns"]
        ELSE IF Greater(new_work_confidence, confidence_threshold)
        THEN [intent_type |-> "NEW_WORK",
              confidence |-> new_work_confidence,
              matched_patterns |-> new_work_matches,
              reasoning |-> "Matched new work patterns"]
        ELSE [intent_type |-> "AMBIGUOUS",
              confidence |-> FloatMax(maintenance_confidence, new_work_confidence),
              matched_patterns |-> maintenance_matches \o new_work_matches,
              reasoning |-> "Ambiguous intent: low confidence scores"]

\* _determine_intent reporting low confidence for every ambiguous result
determine_intent_always_low(maintenance_matches, new_work_matches) ==
    LET maintenance_confidence ==
            Confidence(Len(maintenance_matches), TableLen(maintenance_patterns))
        new_work_confidence ==
            Confidence(Len(new_work_matches), TableLen(new_work_patterns))
    IN  IF /\ Greater(maintenance_confidence, confidence_threshold)
           /\ Greater(maintenance_confidence, new_work_confidence)
        THEN [intent_type |-> "MAINTENANCE",
              confidence |-> maintenance_confidence,
              matched_patterns |-> maintenance_matches,
              reasoning |-> "Matched maintenance patterns"]
        ELSE IF /\ Greater(new_work_confidence, confidence_threshold)
                /\ Greater(new_work_confidence, maintenance_confidence)
        THEN [intent_type |-> "NEW_WORK",
              confidence |-> new_work_confidence,
              matched_patterns |-> new_work_matches,
              reasoning |-> "Matched new work patterns"]
        ELSE [intent_type |-> "AMBIGUOUS",
              confidence |-> FloatMax(maintenance_confidence, new_work_confidence),
              matched_patterns |-> maintenance_matches \o new_work_matches,
              reasoning |-> "Ambiguous intent: low confidence scores"]

\* IntentAnalyzer._determine_intent
determine_intent(maintenance_matches, new_work_matches) ==
    LET maintenance_confidence ==
            Confidence(Len(maintenance_matches), TableLen(maintenance_patterns))
        new_work_confidence ==
            Confidence(Len(new_work_matches), TableLen(new_work_patterns))
        max_confidence == FloatMax(maintenance_confidence, new_work_confidence)
    IN  IF /\ Greater(maintenance_confidence, confidence_threshold)
           /\ Greater(maintenance_confidence, new_work_confidence)
        THEN [intent_type |-> "MAINTENANCE",
              confidence |-> maintenance_confidence,
              matched_patterns |-> maintenance_matches,
              reasoning |-> "Matched maintenance patterns"]
        ELSE IF /\ Greater(new_work_confidence, confidence_threshold)
                /\ Greater(new_work_confidence, maintenance_confidence)
        THEN [intent_type |-> "NEW_WORK",
              confidence |-> new_work_confidence,
              matched_patterns |-> new_work_matches,
              reasoning |-> "Matched new work patterns"]
        ELSE [intent_type |-> "AMBIGUOUS",
              confidence |-> max_confidence,
              matched_patterns |-> maintenance_matches \o new_work_matches,
              reasoning |-> IF Less(max_confidence, confidence_threshold)
                            THEN "Ambiguous intent: low confidence scores"
                            ELSE "Ambiguous intent: similar confidence scores"]

\* IntentAnalyzer.analyze_intent
analyze_intent(message_in) ==
    IF Len(message_in) = 0 \/ Len(Strip(message_in)) = 0
    THEN [intent_type |-> "AMBIGUOUS",
          confidence |-> Zero,
          matched_patterns |-> <<>>,
          reasoning |-> "Empty or whitespace-only message"]
    ELSE LET message == LowerAll(Strip(message_in))
         IN  determine_intent(find_pattern_matches(message, maintenance_patterns),
                              find_pattern_matches(message, new_work_patterns))

-----------------------------------------------------------------------------
(* The messages of the model: the named messages of the specification and   *)
(* of the tests, and every message of at most MaxTextLen tokens over a      *)
(* small alphabet.                                                          *)

MaxTextLen == 1

SmallAlphabet == {"debug", " "}

RECURSIVE SeqsUpTo(_, _)
SeqsUpTo(S, n) ==
    IF n = 0 THEN {<<>>}
    ELSE LET shorter == SeqsUpTo(S, n - 1)
         IN  shorter \cup {Append(s, x) : s \in {t \in shorter : Len(t) = n - 1}, x \in S}

TxtFixAuthTests == <<"fix", "the", "failing", "authentication", "tests">>
TxtDashboard == <<"implement", "new", "user", "dashboard">>
TxtFixBuild == <<"fix", "the", "failing", "tests", "and", "debug", "the", "broken", "build">>
TxtMaintenance == <<" ", "FIX", "Tests", "bug", "issues", "errors", "failing", "styles",
                    "broken", "DEBUG", "\n">>
TxtNewWork == <<"implement", "create", "feature", "component", "system", "interface", "api">>
TxtNewWorkMany == <<"add", "implement", "create", "feature", "component", "system",
                    "interface", "api">>
TxtRefactorNew == <<"refactor", "the", "new", "module">>
TxtSplitLines == <<"fix", "\n", "tests">>
TxtBoth == <<"fix", "tests", "bug", "issues", "errors", "failing", "styles", "broken",
             "debug", "add", "implement", "create", "feature", "component", "system",
             "interface", "api">>
TxtTie == <<"fix", "tests", "bug", "issues", "errors", "failing", "styles", "broken",
            "performance", "validation", "debug", "add", "implement", "create",
            "feature", "functionality", "component", "system", "interface", "api">>

NamedTexts == {TxtFixAuthTests, TxtDashboard, TxtFixBuild, TxtMaintenance, TxtNewWork,
               TxtNewWorkMany, TxtRefactorNew, TxtSplitLines}

Texts == NamedTexts \cup SeqsUpTo(SmallAlphabet, MaxTextLen)

-----------------------------------------------------------------------------
(* The context-aware hook (hooks/context_aware_hook.py).                    *)

NEW_WORK_TOOLS == {"Write", "Edit", "MultiEdit"}

ALWAYS_ALLOWED_TOOLS == {"Read", "Glob", "Grep", "LS"}

\* The hook inputs of the model: <<tool_name, tool_input["command"]>>
Tools == {<<"Write", "">>, <<"Read", "">>, <<"Bash", "git status">>,
          <<"Bash", "npm test">>}

\* any(command.startswith(cmd) for cmd in allowed_commands) or "git " in command
\* or "gh " in command, on the commands of the model
IsAllowedCommand(command) == command \in {"git status", "gh pr create", "ls"}

\* ContextAwareWorkflowHook._should_allow_tool_unconditionally
should_allow_tool_unconditionally(tool_name, command) ==
    \/ tool_name \in ALWAYS_ALLOWED_TOOLS
    \/ tool_name = "Bash" /\ IsAllowedCommand(command)

\* Outcomes of the two subprocess calls of check_workspace_state
GitOutcomes == {"clean", "dirty", "nonzero", "timeout"}
PrOutcomes == {"none", "some", "nonzero", "timeout", "malformed"}

\* The outcomes the decision cycle is explored with
CycleGitOutcomes == {"clean", "dirty", "timeout"}
CyclePrOutcomes == {"none", "some"}

\* The dict check_workspace_state starts from
InitialWorkspaceState ==
    [has_uncommitted_changes |-> FALSE, has_open_prs |-> FALSE, is_clean |-> TRUE]

\* ContextAwareWorkflowHook.check_workspace_state
check_workspace_state(git, pr) ==
    LET has_changes == git = "dirty"
        has_prs == pr = "some"
    IN  [has_uncommitted_changes |-> has_changes,
         has_open_prs |-> has_prs,
         is_clean |-> ~(has_changes \/ has_prs)]

\* str.lower() on the values AGENT_OS_WORK_TYPE takes in the model
LowerEnv(v) ==
    CASE v = "NEW_WORK" -> "new_work"
      [] v = "Maintenance" -> "maintenance"
      [] OTHER -> v

EnvValues == {"", "Maintenance", "NEW_WORK", "bypass"}

NoIntent ==
    [intent_type |-> "none", confidence |-> Zero, matched_patterns |-> <<>>,
     reasoning |-> ""]

Bool(b) == IF b THEN "True" ELSE "False"

\* should_allow_work with the clean-workspace requirement for new work dropped
should_allow_work_new_work_unchecked(work_type, message, ws) ==
    LET manual_override == LowerEnv(work_type)
        intent_result == analyze_intent(message)
    IN  IF manual_override = "maintenance"
        THEN [value |-> "True", intent |-> NoIntent]
        ELSE IF manual_override = "new_work"
        THEN [value |-> Bool(ws.is_clean), intent |-> NoIntent]
        ELSE IF intent_result.intent_type \in {"MAINTENANCE", "NEW_WORK"}
        THEN [value |-> "True", intent |-> intent_result]
        ELSE [value |-> "prompt", intent |-> intent_result]

\* should_allow_work with the workspace requirement applied to maintenance too
should_allow_work_maintenance_checked(work_type, message, ws) ==
    LET manual_override == LowerEnv(work_type)
        intent_result == analyze_intent(message)
    IN  IF manual_override = "maintenance"
        THEN [value |-> "True", intent |-> NoIntent]
        ELSE IF manual_override = "new_work"
        THEN [value |-> Bool(ws.is_clean), intent |-> NoIntent]
        ELSE IF intent_result.intent_type \in {"MAINTENANCE", "NEW_WORK"}
        THEN [value |-> Bool(ws.is_clean), intent |-> intent_result]
        ELSE [value |-> "prompt", intent |-> intent_result]

\* ContextAwareWorkflowHook.should_allow_work up to the call of
\* _handle_ambiguous_intent: the returned value ("prompt" when the user is to be
\* asked) and the intent analysis made on the way
should_allow_work(work_type, message, ws) ==
    LET manual_override == LowerEnv(work_type)
        intent_result == analyze_intent(message)
    IN  IF manual_override = "maintenance"
        THEN [value |-> "True", intent |-> NoIntent]
        ELSE IF manual_override = "new_work"
        THEN [value |-> Bool(ws.is_clean), intent |-> NoIntent]
        ELSE IF intent_result.intent_type = "MAINTENANCE"
        THEN [value |-> "True", intent |-> intent_result]
        ELSE IF intent_result.intent_type = "NEW_WORK"
        THEN [value |-> Bool(ws.is_clean), intent |-> intent_result]
        ELSE [value |-> "prompt", intent |-> intent_result]

\* What input() gives the hook's prompt: a line, or an exception
HookResponses == {"maintenance", "new_work", "abort", "EOFError"}

\* _handle_ambiguous_intent letting the work through when no answer can be read
handle_ambiguous_intent_fail_open(resp, ws) ==
    IF resp \in {"EOFError", "KeyboardInterrupt"} THEN "True"
    ELSE IF resp = "maintenance" THEN "True"
    ELSE Bool(ws.is_clean)

\* ContextAwareWorkflowHook._handle_ambiguous_intent, given what input() gave
handle_ambiguous_intent(resp, ws) ==
    IF resp \in {"EOFError", "KeyboardInterrupt"} THEN Bool(ws.is_clean)
    ELSE IF resp = "maintenance" THEN "True"
    ELSE IF resp = "new_work" THEN Bool(ws.is_clean)
    ELSE Bool(ws.is_clean)

\* ContextAwareWorkflowHook._generate_workflow_guidance: the parts of the message
generate_workflow_guidance(ws) ==
    <<"Agent OS Context-Aware Workflow Enforcement">>
    \o (IF ws.has_uncommitted_changes THEN <<"Uncommitted changes detected">> ELSE <<>>)
    \o (IF ws.has_open_prs THEN <<"Open pull requests need review/merge">> ELSE <<>>)
    \o <<"AGENT OS WORKFLOW - FOLLOW EXACTLY">>
    \o (IF ws.has_open_prs THEN <<"NEXT STEP: Review and merge your open PR">>
        ELSE IF ws.has_uncommitted_changes THEN <<"NEXT STEP: You have uncommitted changes">>
        ELSE <<"Complete git integration workflow first">>)

\* The end of _handle_pretool: exit code 0 to allow, 2 to block with the
\* workflow guidance on stderr
ExitOf(allowed) == IF allowed = "True" THEN 0 ELSE 2

\* the fallback of _handle_pretool letting every action without a message through
fallback_exit_always_allow(ws) == 0

\* _handle_pretool without a user message: the workspace state alone decides
fallback_exit(ws) == IF ~ws.is_clean THEN 2 ELSE 0

\* ContextAwareWorkflowHook._handle_pretool, up to the prompt
HandlePretool ==
    /\ pc = "start"
    /\ LET tool_name == tool[1]
           command == tool[2]
           ws == check_workspace_state(git_out, pr_out)
           r == should_allow_work(env_work_type, user_message, ws)
       IN  IF \/ should_allow_tool_unconditionally(tool_name, command)
              \/ tool_name \notin NEW_WORK_TOOLS
           THEN /\ exit_code' = 0
                /\ pc' = "hook_done"
                /\ UNCHANGED <<workspace_state, intent, should_allow, stderr_out>>
           ELSE IF Len(user_message) = 0
           THEN /\ workspace_state' = ws
                /\ exit_code' = fallback_exit(ws)
                /\ stderr_out' = (fallback_exit(ws) = 2)
                /\ pc' = "hook_done"
                /\ UNCHANGED <<intent, should_allow>>
           ELSE /\ workspace_state' = ws
                /\ intent' = r.intent
                /\ IF r.value = "prompt"
                   THEN /\ pc' = "hook_prompt"
                        /\ UNCHANGED <<should_allow, exit_code, stderr_out>>
                   ELSE /\ should_allow' = r.value
                        /\ exit_code' = ExitOf(r.value)
                        /\ stderr_out' = (r.value = "False")
                        /\ pc' = "hook_done"
    /\ UNCHANGED aux_vars
    /\ UNCHANGED <<env_work_type, env_bypass, tool, user_message, git_out, pr_out,
                   reads, response, override_source, args, allow_manual_override,
                   attempt, prompt_reads, choice, override_decision, hook_result>>

\* _handle_ambiguous_intent reads one line and _handle_pretool ends
HookPromptInput ==
    /\ pc = "hook_prompt"
    /\ \E resp \in HookResponses :
        LET allowed == handle_ambiguous_intent(resp, workspace_state)
        IN  /\ response' = resp
            /\ reads' = reads + 1
            /\ should_allow' = allowed
            /\ exit_code' = ExitOf(allowed)
            /\ stderr_out' = (allowed = "False")
    /\ pc' = "hook_done"
    /\ UNCHANGED aux_vars
    /\ UNCHANGED <<env_work_type, env_bypass, tool, user_message, git_out, pr_out,
                   workspace_state, intent, override_source, args,
                   allow_manual_override, attempt, prompt_reads, choice,
                   override_decision, hook_result>>

-----------------------------------------------------------------------------
(* The manual override system (hooks/manual_override_system.py).            *)

max_retries == 3

\* The flag argparse takes an argument for: exact, a unique abbreviation
\* ("--force-m"), an ambiguous abbreviation ("--force", an error), or none
FlagOf(arg) ==
    CASE arg = "--force-new-work" -> "force_new_work"
      [] arg = "--force-maintenance" -> "force_maintenance"
      [] arg = "--force-m" -> "force_maintenance"
      [] arg = "--interactive" -> "interactive"
      [] arg = "--force" -> "error"
      [] OTHER -> "unknown"

FlagsOf(arglist) == {FlagOf(arglist[i]) : i \in 1..Len(arglist)}

\* The argument lists of the model
ArgLists == {<<>>, <<"--force-new-work">>, <<"--force-m">>, <<"--interactive">>,
             <<"--force-maintenance", "--force-new-work">>, <<"--force">>,
             <<"--verbose">>}

\* ManualOverrideSystem.parse_override_args: the override_type of the decision
parse_override_args(arglist, allow) ==
    IF ~allow THEN "DISABLED"
    ELSE IF "error" \in FlagsOf(arglist) THEN "NONE"
    ELSE IF "force_new_work" \in FlagsOf(arglist) THEN "FORCE_NEW_WORK"
    ELSE IF "force_maintenance" \in FlagsOf(arglist) THEN "FORCE_MAINTENANCE"
    ELSE IF "interactive" \in FlagsOf(arglist) THEN "INTERACTIVE"
    ELSE "NONE"

\* What input() gives prompt_for_disambiguation: a line, or an exception
PromptChoices == {"m", "N", "a", "x", "EOFError"}

\* input(...).strip().lower() on the lines of the model
LowerChoice(c) == IF c = "N" THEN "n" ELSE c

\* prompt_step falling back to new work when the retries are used up
prompt_step_default_new_work(c, att) ==
    IF c \in {"EOFError", "KeyboardInterrupt"} THEN "ABORT"
    ELSE IF LowerChoice(c) = "m" THEN "FORCE_MAINTENANCE"
    ELSE IF LowerChoice(c) = "n" THEN "FORCE_NEW_WORK"
    ELSE IF LowerChoice(c) = "a" THEN "ABORT"
    ELSE IF att < max_retries - 1 THEN "continue"
    ELSE "FORCE_NEW_WORK"

\* One pass of the retry loop of prompt_for_disambiguation: the decision it
\* leaves the loop with, or "continue"
prompt_step(c, att) ==
    IF c \in {"EOFError", "KeyboardInterrupt"} THEN "ABORT"
    ELSE IF LowerChoice(c) = "m" THEN "FORCE_MAINTENANCE"
    ELSE IF LowerChoice(c) = "n" THEN "FORCE_NEW_WORK"
    ELSE IF LowerChoice(c) = "a" THEN "ABORT"
    ELSE IF att < max_retries - 1 THEN "continue"
    ELSE "ABORT"

\* apply_override_to_hook_decision with the forced classifications leaving the
\* decision of the hook in place
apply_override_keeping_hook_decision(original_decision, override_type) ==
    [allow_work |-> IF override_type = "ABORT" THEN FALSE ELSE original_decision,
     reasoning |-> "Manual override",
     override_used |-> override_type \in {"FORCE_NEW_WORK", "FORCE_MAINTENANCE", "ABORT"}]

\* apply_override_to_hook_decision giving no reasoning
apply_override_without_reasoning(original_decision, override_type) ==
    [allow_work |-> IF override_type \in {"FORCE_NEW_WORK", "FORCE_MAINTENANCE"} THEN TRUE
                    ELSE IF override_type = "ABORT" THEN FALSE
                    ELSE original_decision,
     reasoning |-> "",
     override_used |-> override_type \in {"FORCE_NEW_WORK", "FORCE_MAINTENANCE", "ABORT"}]

\* ManualOverrideSystem.apply_override_to_hook_decision
apply_override_to_hook_decision(original_decision, override_type) ==
    CASE override_type = "NONE" ->
            [allow_work |-> original_decision,
             reasoning |-> "No override applied - using original hook decision",
             override_used |-> FALSE]
      [] override_type = "FORCE_NEW_WORK" ->
            [allow_work |-> TRUE,
             reasoning |-> "Manual override",
             override_used |-> TRUE]
      [] override_type = "FORCE_MAINTENANCE" ->
            [allow_work |-> TRUE,
             reasoning |-> "Maintenance override",
             override_used |-> TRUE]
      [] override_type = "ABORT" ->
            [allow_work |-> FALSE,
             reasoning |-> "Work aborted",
             override_used |-> TRUE]
      [] override_type = "DISABLED" ->
            [allow_work |-> original_decision,
             reasoning |-> "Manual overrides disabled - using original hook decision",
             override_used |-> FALSE]
      [] OTHER ->
            [allow_work |-> original_decision,
             reasoning |-> "Unknown override type - using original decision",
             override_used |-> FALSE]

NoHookResult == [allow_work |-> FALSE, reasoning |-> "", override_used |-> FALSE]

\* The caller parses its command line for an override
ParseOverrideArgs ==
    /\ pc = "hook_done"
    /\ \E arglist \in ArgLists :
        /\ args' = arglist
        /\ override_decision' = parse_override_args(arglist, allow_manual_override)
    /\ override_source' = "args"
    /\ pc' = "apply"
    /\ UNCHANGED aux_vars
    /\ UNCHANGED <<env_work_type, env_bypass, tool, user_message, git_out, pr_out,
                   workspace_state, intent, should_allow, exit_code, stderr_out,
                   reads, response, allow_manual_override, attempt, prompt_reads,
                   choice, hook_result>>

\* The caller asks the operator: prompt_for_disambiguation up to its loop
PromptForDisambiguation ==
    /\ pc = "hook_done"
    /\ override_source' = "prompt"
    /\ IF ~allow_manual_override
       THEN /\ override_decision' = "DISABLED"
            /\ pc' = "apply"
       ELSE /\ pc' = "ovr_prompt"
            /\ UNCHANGED override_decision
    /\ UNCHANGED aux_vars
    /\ UNCHANGED <<env_work_type, env_bypass, tool, user_message, git_out, pr_out,
                   workspace_state, intent, should_allow, exit_code, stderr_out,
                   reads, response, args, allow_manual_override, attempt,
                   prompt_reads, choice, hook_result>>

\* One pass of the loop of prompt_for_disambiguation: one input() call
PromptRead ==
    /\ pc = "ovr_prompt"
    /\ attempt < max_retries
    /\ \E c \in PromptChoices :
        /\ choice' = c
        /\ prompt_reads' = prompt_reads + 1
        /\ IF prompt_step(c, attempt) = "continue"
           THEN /\ attempt' = attempt + 1
                /\ UNCHANGED <<pc, override_decision>>
           ELSE /\ override_decision' = prompt_step(c, attempt)
                /\ pc' = "apply"
                /\ UNCHANGED attempt
    /\ UNCHANGED aux_vars
    /\ UNCHANGED <<env_work_type, env_bypass, tool, user_message, git_out, pr_out,
                   workspace_state, intent, should_allow, exit_code, stderr_out,
                   reads, response, override_source, args, allow_manual_override,
                   hook_result>>

\* The override decision is applied to the decision of the hook
ApplyOverride ==
    /\ pc = "apply"
    /\ hook_result' = apply_override_to_hook_decision(exit_code = 0, override_decision)
    /\ pc' = "done"
    /\ UNCHANGED aux_vars
    /\ UNCHANGED <<env_work_type, env_bypass, tool, user_message, git_out, pr_out,
                   workspace_state, intent, should_allow, exit_code, stderr_out,
                   reads, response, override_source, args, allow_manual_override,
                   attempt, prompt_reads, choice, override_decision>>

-----------------------------------------------------------------------------
(* The decision cycle.                                                      *)

Init ==
    /\ pc = "start"
    /\ env_work_type \in EnvValues
    /\ env_bypass \in BOOLEAN
    /\ tool \in Tools
    /\ user_message \in Texts
    /\ git_out \in CycleGitOutcomes
    /\ pr_out \in CyclePrOutcomes
    /\ allow_manual_override \in BOOLEAN
    /\ workspace_state = InitialWorkspaceState
    /\ intent = NoIntent
    /\ should_allow = "none"
    /\ exit_code = -1
    /\ stderr_out = FALSE
    /\ reads = 0
    /\ response = "none"
    /\ override_source = "none"
    /\ args = <<>>
    /\ attempt = 0
    /\ prompt_reads = 0
    /\ choice = "none"
    /\ override_decision = "none"
    /\ hook_result = NoHookResult
    /\ AuxIdle

Next ==
    \/ HandlePretool
    \/ HookPromptInput
    \/ ParseOverrideArgs
    \/ PromptForDisambiguation
    \/ PromptRead
    \/ ApplyOverride

Spec == Init /\ [][Next]_vars

-----------------------------------------------------------------------------
(* Properties of the decision cycle.                                        *)

\* AGENT_OS_WORK_TYPE holds a recognised override
EnvOverride == LowerEnv(env_work_type) \in {"maintenance", "new_work"}

\* The override decision applied forces nothing: the hook's decision stands
NoAppliedOverride == override_decision \in {"NONE", "DISABLED", "INTERACTIVE"}

\* _handle_pretool has returned
HookReturned == pc \in {"hook_done", "ovr_prompt", "apply", "done"}

\* no uncommitted changes and no open PRs, as check_workspace_state found them
Clean ==
    ~workspace_state.has_uncommitted_changes /\ ~workspace_state.has_open_prs

\* C1: with no override set, when the classifier returns NEW_WORK the action is
\* allowed if and only if the workspace is clean: should_allow_work returns
\* is_clean, the hook exits 0 when clean and 2 when dirty, and a decision that no
\* override is applied to stays so.
C1_NewWorkAllowedIffClean ==
    (HookReturned /\ ~EnvOverride /\ intent.intent_type = "NEW_WORK") =>
        /\ should_allow = Bool(Clean)
        /\ exit_code = (IF Clean THEN 0 ELSE 2)
        /\ (pc = "done" /\ NoAppliedOverride => hook_result.allow_work = Clean)

C1_Witness ==
    /\ pc = "done"
    /\ ~EnvOverride
    /\ NoAppliedOverride
    /\ intent.intent_type = "NEW_WORK"
    /\ workspace_state.has_uncommitted_changes
    /\ exit_code = 2
    /\ ~hook_result.allow_work

\* C5: with no override set, when the classifier returns MAINTENANCE the action
\* is allowed whatever the workspace state.
C5_MaintenanceAlwaysAllowed ==
    (HookReturned /\ ~EnvOverride /\ intent.intent_type = "MAINTENANCE") =>
        /\ should_allow = "True"
        /\ exit_code = 0
        /\ (pc = "done" /\ NoAppliedOverride => hook_result.allow_work)

C5_Witness ==
    /\ pc = "done"
    /\ ~EnvOverride
    /\ NoAppliedOverride
    /\ intent.intent_type = "MAINTENANCE"
    /\ workspace_state.has_uncommitted_changes
    /\ workspace_state.has_open_prs
    /\ exit_code = 0
    /\ hook_result.allow_work

\* C2: with a forced NEW_WORK classification, from the environment variable or
\* from a command-line flag, and a dirty workspace, the final decision is block.
C2_ForcedNewWorkDirtyBlocks ==
    /\ (HookReturned /\ should_allow # "none"
            /\ LowerEnv(env_work_type) = "new_work" /\ ~Clean)
         => (should_allow = "False" /\ exit_code = 2)
    /\ (pc = "done" /\ override_source = "args"
            /\ override_decision = "FORCE_NEW_WORK" /\ ~Clean)
         => ~hook_result.allow_work

\* C3: with the global bypass signal and a forced NEW_WORK override both set, the
\* action is allowed even with a dirty workspace.
C3_BypassWins ==
    (HookReturned /\ env_bypass /\ LowerEnv(env_work_type) = "new_work")
        => exit_code = 0

AmbiguousNoOverride == ~EnvOverride /\ intent.intent_type = "AMBIGUOUS"

\* C6: on AMBIGUOUS with no override, the outcome follows the operator's choice:
\* maintenance allows, new work allows if and only if the workspace is clean,
\* abort blocks.
C6_PromptChoiceDecides ==
    /\ (HookReturned /\ AmbiguousNoOverride /\ reads = 1) =>
            /\ response = "maintenance" => should_allow = "True"
            /\ response = "new_work" => should_allow = Bool(Clean)
            /\ response = "abort" => should_allow = "False"
    /\ (pc = "done" /\ AmbiguousNoOverride /\ override_source = "prompt"
            /\ allow_manual_override) =>
            /\ LowerChoice(choice) = "m" => hook_result.allow_work
            /\ LowerChoice(choice) = "n" => hook_result.allow_work = Clean
            /\ LowerChoice(choice) = "a" => ~hook_result.allow_work

C9_FixAuthTestsAllowed ==
    (pc # "start" /\ tool[1] \in NEW_WORK_TOOLS /\ user_message = TxtFixAuthTests
        /\ ~Clean /\ ~EnvOverride) =>
        /\ pc # "hook_prompt"
        /\ reads = 0
        /\ intent.intent_type = "MAINTENANCE"
        /\ exit_code = 0

\* C27: every block verdict is accompanied by a non-empty human-readable reason
\* delivered to the user: no code path ends in a block (exit code 2, or
\* allow_work = false) with an empty or missing reason.
C27_BlockCarriesReason ==
    /\ exit_code = 2 =>
            stderr_out /\ Len(generate_workflow_guidance(workspace_state)) > 0
    /\ (pc = "done" /\ ~hook_result.allow_work) => hook_result.reasoning # ""

\* the hook blocked and the operator aborted
C27_Witness ==
    /\ pc = "done"
    /\ exit_code = 2
    /\ stderr_out
    /\ override_decision = "ABORT"
    /\ ~hook_result.allow_work
    /\ hook_result.reasoning = "Work aborted"

\* C10: an action of a work tool with empty (or whitespace-only) text, a dirty
\* workspace, no override and no operator to answer a prompt is blocked: the hook
\* exits 2 with the guidance on stderr, and the applied decision is block.
C10_EmptyTextDirtyBlocks ==
    (HookReturned /\ tool[1] \in NEW_WORK_TOOLS /\ Len(Strip(user_message)) = 0
        /\ ~Clean /\ ~EnvOverride /\ (reads > 0 => response = "EOFError")) =>
        /\ exit_code = 2
        /\ stderr_out
        /\ (pc = "done" /\ (NoAppliedOverride \/ choice = "EOFError"))
              => ~hook_result.allow_work

C10_Witness ==
    /\ pc = "done"
    /\ tool[1] \in NEW_WORK_TOOLS
    /\ user_message = <<>>
    /\ ~Clean
    /\ ~EnvOverride
    /\ NoAppliedOverride
    /\ exit_code = 2
    /\ ~hook_result.allow_work

-----------------------------------------------------------------------------
(* The classifier on its own: analyze_intent applied to one message, drawn  *)
(* from the named messages and from every message of at most                *)
(* MaxClassifyLen tokens over ClassifyAlphabet.                             *)

MaxClassifyLen == 3

ClassifyAlphabet == {"fix", "tests", "debug", "repair", "patch", "implement",
                     "feature", " ", "\n"}

ClassifyTexts ==
    NamedTexts \cup {TxtBoth, TxtTie} \cup SeqsUpTo(ClassifyAlphabet, MaxClassifyLen)

InitClassify ==
    /\ pc = "classify"
    /\ user_message \in ClassifyTexts
    /\ env_work_type = ""
    /\ env_bypass = FALSE
    /\ tool = <<"Write", "">>
    /\ git_out = "clean"
    /\ pr_out = "none"
    /\ allow_manual_override = TRUE
    /\ workspace_state = InitialWorkspaceState
    /\ intent = NoIntent
    /\ should_allow = "none"
    /\ exit_code = -1
    /\ stderr_out = FALSE
    /\ reads = 0
    /\ response = "none"
    /\ override_source = "none"
    /\ args = <<>>
    /\ attempt = 0
    /\ prompt_reads = 0
    /\ choice = "none"
    /\ override_decision = "none"
    /\ hook_result = NoHookResult
    /\ AuxIdle

\* intent_result = self.intent_analyzer.analyze_intent(user_message)
Classify ==
    /\ pc = "classify"
    /\ intent' = analyze_intent(user_message)
    /\ pc' = "classified"
    /\ UNCHANGED aux_vars
    /\ UNCHANGED <<env_work_type, env_bypass, tool, user_message, git_out, pr_out,
                   workspace_state, should_allow, exit_code, stderr_out, reads,
                   response, override_source, args, allow_manual_override, attempt,
                   prompt_reads, choice, override_decision, hook_result>>

SpecClassify == InitClassify /\ [][Classify]_vars

-----------------------------------------------------------------------------
(* Properties of the classifier.                                            *)

\* The classifier ran on the message
Classified == pc = "classified"

\* Number of patterns of a table the message matches
MatchCount(patterns) ==
    Len(find_pattern_matches(LowerAll(Strip(user_message)), patterns))

\* 0.5 as a confidence
Half == [val |-> ConfScale \div 2, err |-> 0]

\* C11: every text matching three or more maintenance patterns and no new-work
\* pattern is classified MAINTENANCE with confidence greater than 0.5.
C11_ThreeMaintenanceKeywords ==
    (Classified /\ MatchCount(maintenance_patterns) >= 3
        /\ MatchCount(new_work_patterns) = 0) =>
        /\ intent.intent_type = "MAINTENANCE"
        /\ Greater(intent.confidence, Half)

\* the identifiers of both pattern tables, in table order
PatternTable ==
    [i \in 1..(Len(maintenance_patterns) + Len(new_work_patterns)) |->
        IF i <= Len(maintenance_patterns)
        THEN maintenance_patterns[i].id
        ELSE new_work_patterns[i - Len(maintenance_patterns)].id]

\* the places of an identifier in the tables
TablePositions(id) == {i \in 1..Len(PatternTable) : PatternTable[i] = id}

\* C28: in every IntentResult, including AMBIGUOUS results, matched_patterns
\* contains each pattern identifier at most once and lists them in
\* pattern-table order.
C28_MatchedPatternsUniqueOrdered ==
    Classified =>
        LET mp == intent.matched_patterns
        IN  /\ \A i, j \in 1..Len(mp) : i # j => mp[i] # mp[j]
            /\ \A i, j \in 1..Len(mp) : i < j =>
                    \A a \in TablePositions(mp[i]), b \in TablePositions(mp[j]) : a < b
            /\ \A i \in 1..Len(mp) : Cardinality(TablePositions(mp[i])) = 1

\* an AMBIGUOUS result listing patterns of both tables
C28_Witness ==
    /\ Classified
    /\ intent.intent_type = "AMBIGUOUS"
    /\ \E i, j \in 1..Len(intent.matched_patterns) :
            /\ \E a \in 1..Len(maintenance_patterns) :
                    maintenance_patterns[a].id = intent.matched_patterns[i]
            /\ \E b \in 1..Len(new_work_patterns) :
                    new_work_patterns[b].id = intent.matched_patterns[j]

\* C12: for non-empty text the classifier returns MAINTENANCE (NEW_WORK) if and
\* only if that family's confidence is strictly greater than the threshold and
\* strictly greater than the other family's confidence; otherwise it returns
\* AMBIGUOUS with the larger of the two confidences.
C12_ClassIffAboveThresholdAndOther ==
    (Classified /\ Len(user_message) > 0) =>
        LET mc == Confidence(MatchCount(maintenance_patterns), TableLen(maintenance_patterns))
            nc == Confidence(MatchCount(new_work_patterns), TableLen(new_work_patterns))
            m_wins == Greater(mc, confidence_threshold) /\ Greater(mc, nc)
            n_wins == Greater(nc, confidence_threshold) /\ Greater(nc, mc)
        IN  /\ intent.intent_type = "MAINTENANCE" <=> m_wins
            /\ intent.intent_type = "NEW_WORK" <=> n_wins
            /\ intent.intent_type = "AMBIGUOUS" <=> (~m_wins /\ ~n_wins)
            /\ intent.intent_type = "MAINTENANCE" => intent.confidence = mc
            /\ intent.intent_type = "NEW_WORK" => intent.confidence = nc
            /\ intent.intent_type = "AMBIGUOUS" => intent.confidence = FloatMax(mc, nc)

C12_Witness ==
    /\ Classified
    /\ user_message = TxtTie
    /\ intent.intent_type = "AMBIGUOUS"
    /\ intent.confidence.val = ConfScale
    /\ Greater(intent.confidence, confidence_threshold)

\* min(1.0, (m / N) * (1 + 0.1 * m)) in units of 1/ConfScale
ClaimedConfidence(m, n) ==
    LET raw_score == (m * ConfScale) \div n
        boosted == (raw_score * (10 + m)) \div 10
    IN  IF boosted > ConfScale THEN ConfScale ELSE boosted

\* C31: for non-empty text, each family's confidence equals
\* min(1.0, (m / N) * (1 + 0.1 * m)), where m is the number of that family's
\* patterns matching the text and N the number of patterns in its table; the
\* result carries the confidence of the family it names, or the larger one.
C31_ConfidenceFormula ==
    (Classified /\ Len(user_message) > 0) =>
        LET mc == ClaimedConfidence(MatchCount(maintenance_patterns),
                                    Len(maintenance_patterns))
            nc == ClaimedConfidence(MatchCount(new_work_patterns),
                                    Len(new_work_patterns))
        IN  /\ intent.intent_type = "MAINTENANCE" => intent.confidence.val = mc
            /\ intent.intent_type = "NEW_WORK" => intent.confidence.val = nc
            /\ intent.intent_type = "AMBIGUOUS" => intent.confidence.val = Max(mc, nc)

\* two matches of one family: the bonus factor is 1.2, the value below 1.0
C31_Witness ==
    /\ Classified
    /\ MatchCount(maintenance_patterns) = 2
    /\ MatchCount(new_work_patterns) = 0
    /\ intent.confidence.val = (24 * ConfScale) \div (10 * Len(maintenance_patterns))

\* C32: in an AMBIGUOUS result for non-empty text (text that is not
\* whitespace only), the reasoning names low confidence exactly when neither
\* family's confidence exceeds the threshold, and near-tied confidence
\* exactly when some family exceeds the threshold but the two confidences are
\* not strictly separated.
C32_AmbiguousReasoning ==
    (Classified /\ Len(Strip(user_message)) > 0 /\ intent.intent_type = "AMBIGUOUS") =>
        LET mc == Confidence(MatchCount(maintenance_patterns), TableLen(maintenance_patterns))
            nc == Confidence(MatchCount(new_work_patterns), TableLen(new_work_patterns))
            some_exceeds == Greater(mc, confidence_threshold)
                                \/ Greater(nc, confidence_threshold)
            separated == Greater(mc, nc) \/ Greater(nc, mc)
        IN  /\ intent.reasoning = "Ambiguous intent: low confidence scores"
                    <=> ~some_exceeds
            /\ intent.reasoning = "Ambiguous intent: similar confidence scores"
                    <=> (some_exceeds /\ ~separated)

\* both families above the threshold and tied
C32_Witness ==
    /\ Classified
    /\ intent.intent_type = "AMBIGUOUS"
    /\ intent.reasoning = "Ambiguous intent: similar confidence scores"
    /\ Greater(Confidence(MatchCount(maintenance_patterns), TableLen(maintenance_patterns)),
               confidence_threshold)
    /\ MatchCount(new_work_patterns) > 0

-----------------------------------------------------------------------------
(* One run of a hook script: main() parses the input and hands it to the    *)
(* dispatcher (workflow-enforcement-hook-modular.py,                        *)
(* workflow-enforcement-hook-v2.py) or to process_hook                      *)
(* (context_aware_hook.py).                                                 *)

\* the decision cycle is not running
CycleIdleButTool ==
    /\ env_work_type = ""
    /\ env_bypass = FALSE
    /\ user_message = <<>>
    /\ git_out = "clean"
    /\ pr_out = "none"
    /\ allow_manual_override = TRUE
    /\ workspace_state = InitialWorkspaceState
    /\ intent = NoIntent
    /\ should_allow = "none"
    /\ exit_code = -1
    /\ stderr_out = FALSE
    /\ reads = 0
    /\ response = "none"
    /\ override_source = "none"
    /\ args = <<>>
    /\ attempt = 0
    /\ prompt_reads = 0
    /\ choice = "none"
    /\ override_decision = "none"
    /\ hook_result = NoHookResult

CycleIdle == tool = <<"Write", "">> /\ CycleIdleButTool

Dispatchers == {"modular", "v2", "context_aware"}

KnownHookTypes == {"pretool", "pretool-task", "userprompt", "posttool"}

HookTypes == KnownHookTypes \cup {"other"}

\* How a handler ends: it allows (sys.exit(0) / return 0), blocks (sys.exit(2) /
\* return 2), returns without exiting, raises HookError, or raises another
\* Exception.  The handlers of context_aware_hook.py return an exit code and
\* know no HookError.
HandlerOutcomes(d) ==
    IF d = "context_aware" THEN {"allow", "block", "Exception"}
    ELSE {"allow", "block", "return", "HookError", "Exception"}

\* HookDispatcher.dispatch / OptimizedHookDispatcher.dispatch: the exit status
dispatch(type, outcome) ==
    IF type \notin KnownHookTypes THEN [status |-> 1, traceback |-> FALSE]
    ELSE CASE outcome = "allow" -> [status |-> 0, traceback |-> FALSE]
           [] outcome = "block" -> [status |-> 2, traceback |-> FALSE]
           [] outcome = "return" -> [status |-> 0, traceback |-> FALSE]
           [] outcome = "HookError" -> [status |-> 2, traceback |-> FALSE]
           [] outcome = "Exception" -> [status |-> 0, traceback |-> FALSE]

\* ContextAwareWorkflowHook.process_hook under main(): nothing catches what a
\* handler raises, so the interpreter prints the traceback and exits 1
process_hook(type, outcome) ==
    IF type \notin KnownHookTypes THEN [status |-> 0, traceback |-> FALSE]
    ELSE CASE outcome = "allow" -> [status |-> 0, traceback |-> FALSE]
           [] outcome = "block" -> [status |-> 2, traceback |-> FALSE]
           [] outcome = "Exception" -> [status |-> 1, traceback |-> TRUE]

InitDispatch ==
    /\ pc = "main"
    /\ CycleIdle
    /\ dispatcher \in Dispatchers
    /\ hook_type \in HookTypes
    /\ input_ok \in BOOLEAN
    /\ handler_outcome \in HandlerOutcomes(dispatcher)
    /\ process_exit = -1
    /\ traceback = FALSE
    /\ StatusIdle
    /\ PretoolIdle
    /\ CacheIdle
    /\ LibIdle

\* main(): json.load(sys.stdin); a parse error exits 0
ParseInput ==
    /\ pc = "main"
    /\ IF input_ok
       THEN pc' = "dispatch" /\ UNCHANGED process_exit
       ELSE pc' = "exited" /\ process_exit' = 0
    /\ UNCHANGED <<dispatcher, hook_type, input_ok, handler_outcome, traceback>>
    /\ UNCHANGED <<status_vars, pretool_vars, cache_vars, lib_vars>>
    /\ UNCHANGED <<env_work_type, env_bypass, tool, user_message, git_out, pr_out,
                   workspace_state, intent, should_allow, exit_code, stderr_out, reads,
                   response, override_source, args, allow_manual_override, attempt,
                   prompt_reads, choice, override_decision, hook_result>>

\* main(): the dispatch call and the exit of the process
Dispatch ==
    /\ pc = "dispatch"
    /\ LET r == IF dispatcher = "context_aware"
                THEN process_hook(hook_type, handler_outcome)
                ELSE dispatch(hook_type, handler_outcome)
       IN  /\ process_exit' = r.status
           /\ traceback' = r.traceback
    /\ pc' = "exited"
    /\ UNCHANGED <<dispatcher, hook_type, input_ok, handler_outcome>>
    /\ UNCHANGED <<status_vars, pretool_vars, cache_vars, lib_vars>>
    /\ UNCHANGED <<env_work_type, env_bypass, tool, user_message, git_out, pr_out,
                   workspace_state, intent, should_allow, exit_code, stderr_out, reads,
                   response, override_source, args, allow_manual_override, attempt,
                   prompt_reads, choice, override_decision, hook_result>>

NextDispatch == ParseInput \/ Dispatch

SpecDispatch == InitDispatch /\ [][NextDispatch]_vars

\* C13: an unexpected exception raised while a hook is handled is caught by the
\* orchestrating layer and converted to exit code 0; it never blocks and never
\* escapes as a crash.
C13_UnexpectedExceptionAllows ==
    (pc = "exited" /\ input_ok /\ hook_type \in KnownHookTypes
        /\ handler_outcome = "Exception") =>
        (process_exit = 0 /\ ~traceback)

-----------------------------------------------------------------------------
(* The workflow status check: the uncommitted-changes check, the open-PR    *)
(* check and the work-session flag, as implemented by                       *)
(*   hook_core            modules/hook_core.py                              *)
(*   hook_core_optimized  modules/hook_core_optimized.py                    *)
(*   context_aware        context_aware_hook.py (check_workspace_state)     *)
(*   final                workflow-enforcement-hook-final.py                *)

Impls == {"hook_core", "hook_core_optimized", "context_aware", "final"}

GitStdouts == {"", " M file", "garbage"}

PrStdouts == {"", "[]", "[{\"number\": 1}]", "not json", "{\"message\": \"x\"}", "7"}

GitRuns ==
    {Completed(rc, out) : rc \in {0, 128}, out \in GitStdouts}
        \cup {TimeoutExpired, OSErrorRaised}

PrRuns ==
    {Completed(rc, out) : rc \in {0, 1}, out \in PrStdouts}
        \cup {TimeoutExpired, OSErrorRaised}

\* json.loads on the outputs of the model
json_loads(out) ==
    CASE out = "[]" -> [error |-> "none", type |-> "list", len |-> 0]
      [] out = "[{\"number\": 1}]" -> [error |-> "none", type |-> "list", len |-> 1]
      [] out = "{\"message\": \"x\"}" -> [error |-> "none", type |-> "dict", len |-> 1]
      [] out = "7" -> [error |-> "none", type |-> "int", len |-> -1]
      [] OTHER -> [error |-> "JSONDecodeError", type |-> "none", len |-> -1]

\* stdout or "[]"
OrEmptyList(out) == IF out = "" THEN "[]" ELSE out

\* len(prs) > 0: len() of an int raises TypeError
LenPositive(doc) == IF doc.type = "int" THEN "TypeError" ELSE Bool(doc.len > 0)

\* OptimizedSubprocess.run_cached / cached_subprocess on a cache miss:
\* (returncode, stdout)
run_cached(run) ==
    CASE run.kind = "completed" -> <<run.returncode, run.stdout>>
      [] run.kind = "TimeoutExpired" -> <<124, "">>
      [] OTHER -> <<1, "">>

cached_subprocess(run) ==
    IF run.kind = "completed" THEN <<run.returncode, run.stdout>> ELSE <<1, "">>

\* GitChecker.has_uncommitted_changes of hook_core.py: the return code is not
\* looked at
core_has_uncommitted_changes(run) ==
    IF run.kind = "completed" THEN Bool(run.stdout # "") ELSE "False"

\* GitChecker.has_open_prs of hook_core.py
core_has_open_prs(run) ==
    IF run.kind # "completed" THEN "False"
    ELSE IF run.returncode # 0 THEN "False"
    ELSE LET prs == json_loads(OrEmptyList(run.stdout))
         IN  IF prs.error # "none" \/ LenPositive(prs) = "TypeError" THEN "False"
             ELSE LenPositive(prs)

\* GitChecker.has_uncommitted_changes of hook_core_optimized.py
optimized_has_uncommitted_changes(run) ==
    LET r == run_cached(run) IN Bool(r[1] = 0 /\ r[2] # "")

\* GitChecker.has_open_prs of hook_core_optimized.py
optimized_has_open_prs(run) ==
    LET r == run_cached(run)
    IN  IF r[1] # 0 THEN "False"
        ELSE LET prs == json_loads(OrEmptyList(r[2]))
             IN  IF prs.error # "none" \/ LenPositive(prs) = "TypeError" THEN "False"
                 ELSE LenPositive(prs)

\* check_workspace_state of context_aware_hook.py: the git part
workspace_has_changes(run) ==
    IF run.kind = "completed" /\ run.returncode = 0 THEN Bool(run.stdout # "")
    ELSE "False"

\* check_workspace_state of context_aware_hook.py: the PR part
workspace_has_prs(run) ==
    IF run.kind # "completed" \/ run.returncode # 0 THEN "False"
    ELSE LET prs == json_loads(run.stdout)
         IN  IF prs.error # "none" \/ LenPositive(prs) = "TypeError" THEN "False"
             ELSE LenPositive(prs)

\* fast_git_check of workflow-enforcement-hook-final.py
fast_git_check(run) ==
    LET r == cached_subprocess(run) IN Bool(r[1] = 0 /\ r[2] # "")

\* fast_pr_check of workflow-enforcement-hook-final.py: only JSONDecodeError is
\* caught
fast_pr_check(run) ==
    LET r == cached_subprocess(run)
    IN  IF r[1] # 0 THEN "False"
        ELSE LET prs == json_loads(OrEmptyList(r[2]))
             IN  IF prs.error # "none" THEN "False" ELSE LenPositive(prs)

has_uncommitted_changes(i, run) ==
    CASE i = "hook_core" -> core_has_uncommitted_changes(run)
      [] i = "hook_core_optimized" -> optimized_has_uncommitted_changes(run)
      [] i = "context_aware" -> workspace_has_changes(run)
      [] i = "final" -> fast_git_check(run)

has_open_prs(i, run) ==
    CASE i = "hook_core" -> core_has_open_prs(run)
      [] i = "hook_core_optimized" -> optimized_has_open_prs(run)
      [] i = "context_aware" -> workspace_has_prs(run)
      [] i = "final" -> fast_pr_check(run)

\* check_work_session reading the environment variable only
check_work_session_env_only(env, file) == env

\* BaseHookHandler.check_work_session / fast_work_session_check
check_work_session(env, file) == env \/ file

\* The checks a status check runs, given the work-session flag:
\* check_workspace_state knows no work session, hook_core.py skips the
\* uncommitted-changes check, the other two return at once
checks_to_run(i, active) ==
    CASE i = "context_aware" -> {"git", "pr"}
      [] i = "hook_core" -> IF active THEN {"pr"} ELSE {"git", "pr"}
      [] OTHER -> IF active THEN {} ELSE {"git", "pr"}

\* every implementation skipping the PR check once changes are reported
skip_pr_after_changes_everywhere(i) == TRUE

\* check_workflow_issues of workflow-enforcement-hook-final.py:
\* "if not issues and fast_pr_check(cwd)"
skip_pr_after_changes(i) == i = "final"

InitStatus ==
    /\ pc = "check_work_session"
    /\ CycleIdle
    /\ DispatchIdle
    /\ PretoolIdle
    /\ CacheIdle
    /\ LibIdle
    /\ impl \in Impls
    /\ env_work_session \in BOOLEAN
    /\ session_file \in BOOLEAN
    /\ git_run \in GitRuns
    /\ pr_run \in PrRuns
    /\ pending = {}
    /\ git_calls = 0
    /\ pr_calls = 0
    /\ reported_changes = "unset"
    /\ reported_prs = "unset"
    /\ issues = {}
    /\ status_raised = FALSE

\* check_workflow_status: the work-session test at its start
CheckWorkSession ==
    /\ pc = "check_work_session"
    /\ pending' = checks_to_run(impl, check_work_session(env_work_session, session_file))
    /\ pc' = "checks"
    /\ UNCHANGED <<impl, env_work_session, session_file, git_run, pr_run, git_calls,
                   pr_calls, reported_changes, reported_prs, issues, status_raised>>
    /\ UNCHANGED <<cycle_vars_but_pc, dispatch_vars, pretool_vars, cache_vars, lib_vars>>

\* the uncommitted-changes check and the issue it adds
GitCheck ==
    /\ pc = "checks"
    /\ "git" \in pending
    /\ git_calls' = git_calls + 1
    /\ LET changes == has_uncommitted_changes(impl, git_run)
       IN  /\ reported_changes' = changes
           /\ issues' = IF changes = "True"
                        THEN issues \cup {"Uncommitted changes detected"}
                        ELSE issues
           /\ pending' = IF changes = "True" /\ skip_pr_after_changes(impl)
                         THEN {} ELSE pending \ {"git"}
    /\ UNCHANGED <<pc, impl, env_work_session, session_file, git_run, pr_run, pr_calls,
                   reported_prs, status_raised>>
    /\ UNCHANGED <<cycle_vars_but_pc, dispatch_vars, pretool_vars, cache_vars, lib_vars>>

\* the open-PR check and the issue it adds; only hook_core_optimized.py runs it
\* in parallel with the uncommitted-changes check
PrCheck ==
    /\ pc = "checks"
    /\ "pr" \in pending
    /\ impl # "hook_core_optimized" => "git" \notin pending
    /\ pr_calls' = pr_calls + 1
    /\ LET prs == has_open_prs(impl, pr_run)
       IN  IF prs = "TypeError"
           THEN /\ status_raised' = TRUE
                /\ pc' = "status_done"
                /\ pending' = {}
                /\ UNCHANGED <<reported_prs, issues>>
           ELSE /\ reported_prs' = prs
                /\ issues' = IF prs = "True"
                             THEN issues \cup {"Open pull requests need review/merge"}
                             ELSE issues
                /\ pending' = pending \ {"pr"}
                /\ UNCHANGED <<pc, status_raised>>
    /\ UNCHANGED <<impl, env_work_session, session_file, git_run, pr_run, git_calls,
                   reported_changes>>
    /\ UNCHANGED <<cycle_vars_but_pc, dispatch_vars, pretool_vars, cache_vars, lib_vars>>

\* return issues
ReturnIssues ==
    /\ pc = "checks"
    /\ pending = {}
    /\ pc' = "status_done"
    /\ UNCHANGED status_vars
    /\ UNCHANGED <<cycle_vars_but_pc, dispatch_vars, pretool_vars, cache_vars, lib_vars>>

NextStatus == CheckWorkSession \/ GitCheck \/ PrCheck \/ ReturnIssues

SpecStatus == InitStatus /\ [][NextStatus]_vars

\* The work-session flag is set, for an implementation that knows it
WorkSessionActive ==
    impl # "context_aware" /\ (env_work_session \/ session_file)

\* the uncommitted-changes check timed out, could not run, exited non-zero or
\* printed something that is no porcelain status
GitCheckFailed ==
    \/ git_run.kind # "completed"
    \/ git_run.returncode # 0
    \/ git_run.stdout = "garbage"

\* the open-PR check timed out, could not run, exited non-zero or printed
\* something that is no JSON list
PrCheckFailed ==
    \/ pr_run.kind # "completed"
    \/ pr_run.returncode # 0
    \/ json_loads(pr_run.stdout).type # "list"

\* C15: when an external status check times out, exits non-zero or returns
\* malformed output, its boolean is reported as false and no exception reaches
\* the caller.
C15_FailedCheckReportsFalse ==
    pc = "status_done" =>
        /\ ~status_raised
        /\ (git_calls > 0 /\ GitCheckFailed) => reported_changes = "False"
        /\ (pr_calls > 0 /\ PrCheckFailed) => reported_prs = "False"

\* C16 as claimed: the result of each of the two workspace checks is the same
\* whatever the other check does (succeeds, reports, fails or times out).
C16_ChecksIndependent ==
    (pc = "status_done" /\ ~status_raised /\ ~WorkSessionActive) =>
        /\ reported_changes = has_uncommitted_changes(impl, git_run)
        /\ reported_prs = has_open_prs(impl, pr_run)

\* C16 as amended: the uncommitted-changes result never depends on the open-PR
\* check, and the open-PR result does not depend on the uncommitted-changes
\* check failing, timing out or finding nothing; check_workflow_issues of
\* workflow-enforcement-hook-final.py alone skips the open-PR check (and reports
\* no open PRs) once the uncommitted-changes check has reported changes.
C16_ChecksIndependentUnlessSkipped ==
    (pc = "status_done" /\ ~status_raised /\ ~WorkSessionActive) =>
        /\ reported_changes = has_uncommitted_changes(impl, git_run)
        /\ IF impl = "final" /\ reported_changes = "True"
           THEN /\ pr_calls = 0
                /\ reported_prs = "unset"
                /\ "Open pull requests need review/merge" \notin issues
           ELSE /\ pr_calls = 1
                /\ reported_prs = has_open_prs(impl, pr_run)

C16_Witness ==
    /\ pc = "status_done"
    /\ impl = "hook_core_optimized"
    /\ git_run = TimeoutExpired
    /\ pr_run = Completed(0, "[{\"number\": 1}]")
    /\ reported_changes = "False"
    /\ reported_prs = "True"

\* C17: with the work-session flag active (environment variable or marker
\* file), the status check never invokes the uncommitted-changes check and
\* reports no uncommitted changes.
C17_WorkSessionSkipsGitCheck ==
    (pc \in {"checks", "status_done"} /\ WorkSessionActive) =>
        /\ git_calls = 0
        /\ reported_changes = "unset"
        /\ "Uncommitted changes detected" \notin issues

C17_Witness ==
    /\ pc = "status_done"
    /\ impl = "hook_core"
    /\ ~env_work_session
    /\ session_file
    /\ git_run = Completed(0, " M file")
    /\ git_calls = 0
    /\ pr_calls = 1
    /\ "Uncommitted changes detected" \notin issues

\* the issues the two checks give for the outputs of their commands
ExpectedIssues ==
    (IF has_uncommitted_changes(impl, git_run) = "True"
     THEN {"Uncommitted changes detected"} ELSE {})
    \cup (IF has_open_prs(impl, pr_run) = "True"
          THEN {"Open pull requests need review/merge"} ELSE {})

\* C35: when the uncommitted-changes check and the open-PR check run
\* concurrently, the set of workflow issues reported is the same for every
\* completion order and interleaving of the two checks: it is a function of
\* what the two commands print.
C35_IssuesOrderIndependent ==
    (impl = "hook_core_optimized" /\ ~WorkSessionActive) =>
        /\ issues \subseteq ExpectedIssues
        /\ pc = "status_done" => issues = ExpectedIssues

\* the open-PR check has completed first, the uncommitted-changes check is
\* still running and will report changes
C35_Witness ==
    /\ impl = "hook_core_optimized"
    /\ pc = "checks"
    /\ pending = {"git"}
    /\ pr_calls = 1
    /\ git_calls = 0
    /\ issues = {"Open pull requests need review/merge"}
    /\ has_uncommitted_changes(impl, git_run) = "True"

\* C37: with the work-session flag active, only the uncommitted-changes check
\* is suppressed: the open-PR check is still performed and open pull requests
\* are still reported as a workflow issue.
C37_WorkSessionStillChecksPrs ==
    (pc = "status_done" /\ WorkSessionActive /\ ~status_raised) =>
        /\ pr_calls = 1
        /\ has_open_prs(impl, pr_run) = "True" =>
                "Open pull requests need review/merge" \in issues

-----------------------------------------------------------------------------
(* PreToolHandler.handle (modules/pretool_handler.py) with the auxiliary    *)
(* checks of modules/hook_core.py: the documentation check, the intent      *)
(* analysis, the spec detection and the workflow status check.              *)

\* PreToolHandler.NEW_WORK_TOOLS
PRETOOL_NEW_WORK_TOOLS == {"Write", "Edit", "MultiEdit", "Update", "Task"}

\* <<tool_name, command or file_path>>
PretoolTools ==
    {<<"Bash", "gh pr create">>, <<"Bash", "git status">>, <<"Bash", "ls">>,
     <<"Bash", "npm install">>, <<"Bash", "echo x > notes.md">>,
     <<"Bash", "python run.py">>, <<"Write", "src/app.py">>,
     <<"Write", "README.md">>, <<"Read", "src/app.py">>}

\* re.match(r"\s*(gh\s+pr\s+(create|merge)\b)", command)
IsPrCommand(command) == command = "gh pr create"

\* BashCommandAnalyzer.is_git_gh_command
is_git_gh_command(command) == command \in {"gh pr create", "git status"}

\* BashCommandAnalyzer.is_write_command
is_write_command(command) == command \in {"npm install", "echo x > notes.md"}

\* BashCommandAnalyzer.is_readonly_command
is_readonly_command(command) ==
    command \in {"ls", "echo x > notes.md"} /\ ~is_write_command(command)

\* BashCommandAnalyzer.is_docs_only_command, and the docs test of
\* _handle_other_tools
is_docs_only_command(command) == command \in {"echo x > notes.md", "README.md"}

DocRuns == {Completed(0, ""), Completed(2, ""), TimeoutExpired, OSErrorRaised}

IntentRuns ==
    {Completed(0, "maintenance"), Completed(0, "NEW"), Completed(0, "AMBIGUOUS"),
     Completed(1, ""), Completed(0, "garbage"), TimeoutExpired, OSErrorRaised}

SpecRuns ==
    {Completed(0, "0"), Completed(0, "2"), Completed(0, ""), Completed(0, "garbage"),
     TimeoutExpired, OSErrorRaised}

EnvIntents == {"", "NEW"}

ValidIntents == {"MAINTENANCE", "NEW", "AMBIGUOUS"}

\* str.upper() on the outputs of the model
Upper(out) == IF out = "maintenance" THEN "MAINTENANCE" ELSE out

\* DocumentationChecker.check_docs_before_pr for a PR command: it returns, or
\* raises SystemExit with a message (exit status 1)
check_docs_before_pr(run) ==
    IF run.kind = "completed" /\ run.returncode # 2 THEN "return" ELSE "SystemExit"

\* IntentAnalyzer.get_intent of hook_core.py
get_intent(env, run) ==
    IF env \in ValidIntents THEN env
    ELSE IF run.kind # "completed" THEN "AMBIGUOUS"
    ELSE IF Upper(run.stdout) \in ValidIntents THEN Upper(run.stdout)
    ELSE "AMBIGUOUS"

\* SpecChecker.has_active_spec of hook_core.py: int() of the listing count
has_active_spec(run) ==
    IF run.kind # "completed" THEN FALSE ELSE run.stdout = "2"

InitPretool ==
    /\ pc = "pt_handle"
    /\ CycleIdleButTool
    /\ tool \in PretoolTools
    /\ dispatcher = "modular"
    /\ hook_type = "pretool"
    /\ input_ok = TRUE
    /\ handler_outcome = "none"
    /\ process_exit = -1
    /\ traceback = FALSE
    /\ impl = "hook_core"
    /\ env_work_session \in BOOLEAN
    /\ session_file = FALSE
    /\ git_run \in {Completed(0, ""), Completed(0, " M file"), TimeoutExpired}
    /\ pr_run \in {Completed(0, "[]"), Completed(0, "[{\"number\": 1}]")}
    /\ pending = {}
    /\ git_calls = 0
    /\ pr_calls = 0
    /\ reported_changes = "unset"
    /\ reported_prs = "unset"
    /\ issues = {}
    /\ status_raised = FALSE
    /\ env_intent \in EnvIntents
    /\ doc_run \in DocRuns
    /\ intent_run \in IntentRuns
    /\ spec_run \in SpecRuns
    /\ ran = {}
    /\ pt_intent = "none"
    /\ CacheIdle
    /\ LibIdle

\* what the start of the handler leaves unchanged
PretoolFrame ==
    /\ UNCHANGED <<cycle_vars_but_pc, status_vars, cache_vars, lib_vars>>
    /\ UNCHANGED <<dispatcher, hook_type, input_ok, handler_outcome, traceback>>
    /\ UNCHANGED <<env_intent, doc_run, intent_run, spec_run>>

\* PreToolHandler.handle up to the first auxiliary check: _handle_bash_command
\* after the documentation check, or the docs exception of _handle_other_tools
HandleTool ==
    /\ pc = "pt_handle"
    /\ IF tool[1] = "Bash" /\ IsPrCommand(tool[2])
       THEN pc' = "pt_docs" /\ UNCHANGED process_exit
       ELSE IF \/ (tool[1] = "Bash" /\ is_git_gh_command(tool[2]))
               \/ (tool[1] = "Bash" /\ is_readonly_command(tool[2]))
               \/ (tool[1] = "Bash" /\ is_write_command(tool[2])
                     /\ is_docs_only_command(tool[2]))
               \/ (tool[1] # "Bash" /\ tool[1] \notin PRETOOL_NEW_WORK_TOOLS)
               \/ (tool[1] # "Bash" /\ is_docs_only_command(tool[2]))
       THEN pc' = "pt_exited" /\ process_exit' = 0
       ELSE pc' = "pt_intent" /\ UNCHANGED process_exit
    /\ UNCHANGED <<ran, pt_intent>>
    /\ PretoolFrame

\* DocumentationChecker.check_docs_before_pr, then the git/gh exit
CheckDocs ==
    /\ pc = "pt_docs"
    /\ ran' = ran \cup {"docs"}
    /\ process_exit' = IF check_docs_before_pr(doc_run) = "SystemExit" THEN 1 ELSE 0
    /\ pc' = "pt_exited"
    /\ UNCHANGED pt_intent
    /\ PretoolFrame

\* IntentAnalyzer.get_intent and the branches on its result in
\* _handle_write_command and _handle_other_tools
GetIntent ==
    /\ pc = "pt_intent"
    /\ ran' = IF env_intent \in ValidIntents THEN ran ELSE ran \cup {"intent"}
    /\ pt_intent' = get_intent(env_intent, intent_run)
    /\ IF tool[1] = "Bash" /\ ~is_write_command(tool[2])
       THEN pc' = "pt_exited" /\ process_exit' = 0
       ELSE IF pt_intent' = "MAINTENANCE"
       THEN pc' = "pt_exited" /\ process_exit' = 0
       ELSE pc' = "pt_spec" /\ UNCHANGED process_exit
    /\ PretoolFrame

\* _enforce_workflow_requirements: the spec detection
CheckSpec ==
    /\ pc = "pt_spec"
    /\ ran' = ran \cup {"spec"}
    /\ IF has_active_spec(spec_run)
       THEN pc' = "check_work_session" /\ UNCHANGED process_exit
       ELSE pc' = "pt_exited" /\ process_exit' = 2
    /\ UNCHANGED pt_intent
    /\ PretoolFrame

\* _enforce_workflow_requirements: exit_block on issues, exit_allow otherwise
EnforceExit ==
    /\ pc = "status_done"
    /\ process_exit' = IF issues # {} THEN 2 ELSE 0
    /\ pc' = "pt_exited"
    /\ UNCHANGED <<ran, pt_intent>>
    /\ PretoolFrame

NextPretool ==
    \/ HandleTool
    \/ CheckDocs
    \/ GetIntent
    \/ CheckSpec
    \/ CheckWorkSession
    \/ GitCheck
    \/ PrCheck
    \/ ReturnIssues
    \/ EnforceExit

SpecPretool == InitPretool /\ [][NextPretool]_vars

\* an auxiliary check that was run timed out or could not be executed
AuxiliaryCheckFailed ==
    \/ "docs" \in ran /\ doc_run.kind # "completed"
    \/ "intent" \in ran /\ intent_run.kind # "completed"
    \/ "spec" \in ran /\ spec_run.kind # "completed"

\* C14: when an auxiliary check made during pre-tool handling (documentation
\* check, active-spec detection, intent analysis) times out or cannot be
\* executed, the action is allowed (exit 0) rather than blocked.
C14_ErroringPathAllows ==
    (pc = "pt_exited" /\ AuxiliaryCheckFailed) => process_exit = 0

\* C29: a Bash pre-tool action whose command starts with "git " or "gh "
\* ("gh pr create" included) is always allowed with exit code 0, whatever the
\* workspace state, the detected intent, the presence of a spec or the outcome
\* of the documentation check.
C29_GitCommandsAlwaysAllowed ==
    (pc = "pt_exited" /\ tool[1] = "Bash" /\ is_git_gh_command(tool[2]))
        => process_exit = 0

\* ---------------------------------------------------------------------------
\* The TTL caches, one caller
\* ---------------------------------------------------------------------------

MaxTime == 3

\* TTLCache(default_ttl=30)
default_ttl == 30

Ttls == {NoneTtl} \cup (0 .. MaxTime)

CacheImpls == {"TTLCache", "cached_subprocess"}

\* ttl or self.default_ttl: None and 0 are both falsy
effective_ttl(ttl) == IF ttl = NoneTtl \/ ttl = 0 THEN default_ttl ELSE ttl

\* an entry that never expires
ttl_never_expired(age, ttl) == FALSE

\* age > (ttl or self.default_ttl)
ttl_expired(age, ttl) == age > effective_ttl(ttl)

\* TTLCache.get: the value returned and the cache it leaves
TTLCache_get(c, ts, key, ttl, t) ==
    IF c[key] = "absent"
    THEN [result |-> "absent", cache |-> c, timestamps |-> ts]
    ELSE IF ttl_expired(t - ts[key], ttl)
         THEN [result |-> "absent",
               cache |-> [c EXCEPT ![key] = "absent"],
               timestamps |-> [ts EXCEPT ![key] = -1]]
         ELSE [result |-> c[key], cache |-> c, timestamps |-> ts]

\* cache_key in _cache and (now - _cache_times[cache_key]) < cache_ttl
cached_subprocess_hit(c, ts, key, ttl, t) ==
    c[key] # "absent" /\ (t - ts[key]) < ttl

\* what the lookup is compared with: the last value set and its age
Lookup(key, ttl, result) ==
    [key |-> key, ttl |-> ttl, result |-> result,
     elapsed |-> IF stored[key].at = -1 THEN -1 ELSE now - stored[key].at,
     expected |-> stored[key].value,
     present |-> cache[key] # "absent",
     outlived |-> /\ stored[key].replaced_at # -1
                  /\ ttl # NoneTtl
                  /\ now - stored[key].replaced_at > ttl,
     after_failure |-> stored[key].failed]

\* the record of a set of the key at the present time
Stored(key, value) ==
    [value |-> value, at |-> now, replaced_at |-> stored[key].at, failed |-> FALSE]

InitCache ==
    /\ CycleIdle
    /\ pc = "cache"
    /\ DispatchIdle
    /\ StatusIdle
    /\ PretoolIdle
    /\ cache_impl \in CacheImpls
    /\ CacheEmpty
    /\ LibIdle

CacheFrame ==
    UNCHANGED <<cycle_vars, dispatch_vars, status_vars, pretool_vars, cache_impl, thread_vars,
                lib_vars>>

\* a set that keeps the timestamp of an entry it overwrites
Set_keeping_timestamp(key, value) ==
    /\ pc = "cache"
    /\ cache_impl = "TTLCache"
    /\ cache' = [cache EXCEPT ![key] = value]
    /\ timestamps' = [timestamps EXCEPT
                        ![key] = IF cache[key] = "absent" THEN now ELSE @]
    /\ stored' = [stored EXCEPT ![key] = Stored(key, value)]
    /\ UNCHANGED <<now, last_get>>
    /\ CacheFrame

\* TTLCache.set(key, value)
Set(key, value) ==
    /\ pc = "cache"
    /\ cache_impl = "TTLCache"
    /\ cache' = [cache EXCEPT ![key] = value]
    /\ timestamps' = [timestamps EXCEPT ![key] = now]
    /\ stored' = [stored EXCEPT ![key] = Stored(key, value)]
    /\ UNCHANGED <<now, last_get>>
    /\ CacheFrame

\* TTLCache.get(key, ttl)
Get(key, ttl) ==
    /\ pc = "cache"
    /\ cache_impl = "TTLCache"
    /\ LET r == TTLCache_get(cache, timestamps, key, ttl, now)
       IN /\ cache' = r.cache
          /\ timestamps' = r.timestamps
          /\ last_get' = Lookup(key, ttl, r.result)
    /\ UNCHANGED <<now, stored>>
    /\ CacheFrame

\* cached_subprocess(cmd, cache_ttl=ttl): a hit returns the cached output, a
\* miss runs the command and caches its output
CachedSubprocess(key, ttl, output) ==
    /\ pc = "cache"
    /\ cache_impl = "cached_subprocess"
    /\ ttl # NoneTtl
    /\ IF cached_subprocess_hit(cache, timestamps, key, ttl, now)
       THEN /\ last_get' = Lookup(key, ttl, cache[key])
            /\ UNCHANGED <<cache, timestamps, stored>>
       ELSE /\ last_get' = Lookup(key, ttl, "absent")
            /\ cache' = [cache EXCEPT ![key] = output]
            /\ timestamps' = [timestamps EXCEPT ![key] = now]
            /\ stored' = [stored EXCEPT ![key] = Stored(key, output)]
    /\ UNCHANGED now
    /\ CacheFrame

\* time passes
Tick ==
    /\ pc = "cache"
    /\ now < MaxTime
    /\ now' = now + 1
    /\ UNCHANGED <<cache, timestamps, stored, last_get>>
    /\ CacheFrame

NextCache ==
    \/ \E k \in Keys, v \in Values : Set(k, v)
    \/ \E k \in Keys, ttl \in Ttls : Get(k, ttl)
    \/ \E k \in Keys, ttl \in Ttls, v \in Values : CachedSubprocess(k, ttl, v)
    \/ Tick

SpecCache == InitCache /\ [][NextCache]_vars

\* a lookup of a key that was set before, with an explicit ttl
LookedUpSetKey ==
    /\ last_get.key # "none"
    /\ last_get.ttl # NoneTtl
    /\ last_get.expected # "absent"

\* C18: after set(k, v), a get(k, ttl) issued while the elapsed time is smaller
\* than ttl returns exactly v, and a get(k, ttl) issued after ttl has elapsed
\* returns absent.
C18_GetWithinTtlReturnsValue ==
    (cache_impl = "TTLCache" /\ LookedUpSetKey) =>
        /\ last_get.elapsed < last_get.ttl => last_get.result = last_get.expected
        /\ last_get.elapsed > last_get.ttl => last_get.result = "absent"

\* C19: an entry is visible only while now - timestamp < ttl strictly: at the
\* instant now - timestamp equals ttl, and later, the lookup returns absent.
C19_AbsentFromEquality ==
    (LookedUpSetKey /\ last_get.elapsed >= last_get.ttl) =>
        last_get.result = "absent"

\* C39: get(k, ttl) honours the ttl passed in the call for every value of ttl,
\* 0 included: get(k, 0) returns absent for every key, even one set
\* immediately before, and never falls back to a different freshness window.
C39_ZeroTtlHonoured ==
    (cache_impl = "TTLCache" /\ last_get.key # "none" /\ last_get.ttl = 0) =>
        last_get.result = "absent"

\* C33: set always overwrites and restarts the entry's lifetime: after
\* set(k, v1) followed later by set(k, v2) at time t2, get(k, ttl) returns v2,
\* never v1, and the entry stays visible while less than ttl has elapsed since
\* t2, whenever the first set happened.
C33_SetOverwritesAndRestarts ==
    (cache_impl = "TTLCache" /\ LookedUpSetKey /\ last_get.present) =>
        /\ last_get.result \in {last_get.expected, "absent"}
        /\ last_get.elapsed < last_get.ttl => last_get.result = last_get.expected

\* a value was set, v2 replaced it later, and the lookup comes when the ttl
\* counted from the first set has run out but the ttl counted from the second
\* has not
C33_Witness ==
    /\ cache_impl = "TTLCache"
    /\ LookedUpSetKey
    /\ last_get.present
    /\ last_get.outlived
    /\ last_get.expected = "v2"
    /\ last_get.result = "v2"
    /\ last_get.elapsed < last_get.ttl

\* ---------------------------------------------------------------------------
\* The cached status checks: OptimizedSubprocess.run_cached of
\* modules/hook_core_optimized.py and cached_subprocess of
\* workflow-enforcement-hook-final.py, called by the uncommitted-changes check
\* and by the open-PR check, each with its own key and TTL
\* ---------------------------------------------------------------------------

MaxClock == 20

\* the seconds that pass between two checks
ElapseSteps == {5, 10}

CheckImpls == {"hook_core_optimized", "final"}

Checks == {"git", "pr"}

\* cache_key = f"{':'.join(cmd)}:{cwd or 'none'}": one key per command
cache_key(check) == IF check = "git" THEN "k1" ELSE "k2"

\* cache_ttl of the call: has_uncommitted_changes / has_open_prs, and
\* fast_git_check / fast_pr_check
cache_ttl(i, check) ==
    IF i = "hook_core_optimized"
    THEN (IF check = "git" THEN 5 ELSE 15)
    ELSE (IF check = "git" THEN 10 ELSE 30)

\* what the command does: it prints one of two outputs, times out, or cannot
\* be started
CheckRuns == {Completed(0, "v1"), Completed(0, "v2"), TimeoutExpired, OSErrorRaised}

\* (1, "", "timeout or error") as a cached value
FailureOutput == "failure"

InitChecks ==
    /\ CycleIdle
    /\ pc = "cached_checks"
    /\ DispatchIdle
    /\ StatusIdle
    /\ PretoolIdle
    /\ cache_impl \in CheckImpls
    /\ CacheEmpty
    /\ LibIdle

\* OptimizedSubprocess.run_cached: the cached value on a hit; on a miss the
\* command is run and its result cached only if it completed
RunCached(check, run) ==
    /\ pc = "cached_checks"
    /\ cache_impl = "hook_core_optimized"
    /\ LET key == cache_key(check)
           ttl == cache_ttl(cache_impl, check)
           r == TTLCache_get(cache, timestamps, key, ttl, now)
       IN  /\ last_get' = Lookup(key, ttl, r.result)
           /\ IF r.result # "absent"
              THEN UNCHANGED <<cache, timestamps, stored>>
              ELSE IF run.kind = "completed"
              THEN /\ cache' = [r.cache EXCEPT ![key] = run.stdout]
                   /\ timestamps' = [r.timestamps EXCEPT ![key] = now]
                   /\ stored' = [stored EXCEPT ![key] = Stored(key, run.stdout)]
              ELSE /\ cache' = r.cache
                   /\ timestamps' = r.timestamps
                   /\ stored' = [stored EXCEPT ![key].failed = TRUE]
    /\ UNCHANGED now
    /\ CacheFrame

\* cached_subprocess: the cached value on a hit; on a miss the command is run
\* and its result cached, a failure too
CachedSubprocessRun(check, run) ==
    /\ pc = "cached_checks"
    /\ cache_impl = "final"
    /\ LET key == cache_key(check)
           ttl == cache_ttl(cache_impl, check)
       IN  IF cached_subprocess_hit(cache, timestamps, key, ttl, now)
           THEN /\ last_get' = Lookup(key, ttl, cache[key])
                /\ UNCHANGED <<cache, timestamps, stored>>
           ELSE LET output == IF run.kind = "completed" THEN run.stdout
                              ELSE FailureOutput
                IN  /\ last_get' = Lookup(key, ttl, "absent")
                    /\ cache' = [cache EXCEPT ![key] = output]
                    /\ timestamps' = [timestamps EXCEPT ![key] = now]
                    /\ stored' = [stored EXCEPT
                                    ![key] = [Stored(key, output) EXCEPT
                                                !.failed = run.kind # "completed"]]
    /\ UNCHANGED now
    /\ CacheFrame

\* time passes between two checks
Elapse ==
    /\ pc = "cached_checks"
    /\ \E d \in ElapseSteps :
        /\ now + d <= MaxClock
        /\ now' = now + d
    /\ UNCHANGED <<cache, timestamps, stored, last_get>>
    /\ CacheFrame

NextChecks ==
    \/ \E check \in Checks, run \in CheckRuns : RunCached(check, run)
    \/ \E check \in Checks, run \in CheckRuns : CachedSubprocessRun(check, run)
    \/ Elapse

SpecChecks == InitChecks /\ [][NextChecks]_vars

\* the last check found no usable entry and started the external command
StartedProcess == last_get.key # "none" /\ last_get.result = "absent"

\* the last check came after a completed run of the same command
AfterCompletedRun ==
    /\ last_get.key # "none"
    /\ last_get.expected \notin {"absent", FailureOutput}
    /\ ~last_get.after_failure

\* C34: a status check repeated with the same command and directory within
\* the TTL of a previous completed run returns the cached result without
\* starting a new external process, and the first check after the TTL has
\* elapsed runs the external command again; the uncommitted-changes and
\* open-PR checks use separate keys and separate TTLs.
C34_ChecksCachedPerKey ==
    /\ AfterCompletedRun =>
        /\ last_get.elapsed < last_get.ttl =>
                ~StartedProcess /\ last_get.result = last_get.expected
        /\ last_get.elapsed > last_get.ttl => StartedProcess
    /\ cache_key("git") # cache_key("pr")
    /\ cache_impl \in CheckImpls =>
        /\ cache_ttl(cache_impl, "git") # cache_ttl(cache_impl, "pr")
        /\ \A check \in Checks :
                LET key == cache_key(check)
                IN  /\ last_get.key = key => last_get.ttl = cache_ttl(cache_impl, check)
                    /\ cache[key] # "absent" =>
                            /\ cache[key] = stored[key].value
                            /\ timestamps[key] = stored[key].at

\* the open-PR check is answered from the cache at an age at which the
\* uncommitted-changes check would have run its command again
C34_Witness ==
    /\ cache_impl = "hook_core_optimized"
    /\ last_get.key = cache_key("pr")
    /\ AfterCompletedRun
    /\ last_get.elapsed > cache_ttl(cache_impl, "git")
    /\ last_get.elapsed < last_get.ttl
    /\ ~StartedProcess
    /\ last_get.result = last_get.expected

\* C38: a status check that timed out or failed to execute leaves no cache
\* entry: the next check for the same command and directory, even within the
\* TTL window, runs the external command again instead of replaying the
\* failure result.
C38_FailureNotCached ==
    /\ \A key \in Keys : stored[key].failed => cache[key] = "absent"
    /\ (last_get.key # "none" /\ last_get.after_failure) => StartedProcess

\* ---------------------------------------------------------------------------
\* The TTL caches, several threads
\* ---------------------------------------------------------------------------

MaxOps == 2

MaxAdvances == 1

\* CacheManager._ttl_seconds
ttl_seconds == 30

ThreadedImpls == {"TTLCache", "CacheManager"}

\* cache_ttl=5 of the git status check, and the default
ThreadTtls == {5, NoneTtl}

ThreadKeys == {"k1"}

InitThreads ==
    /\ CycleIdle
    /\ pc = "threads"
    /\ DispatchIdle
    /\ StatusIdle
    /\ PretoolIdle
    /\ cache_impl \in ThreadedImpls
    /\ CacheEmpty
    /\ LibIdle

ThreadFrame ==
    UNCHANGED <<cycle_vars, dispatch_vars, status_vars, pretool_vars, cache_impl,
                stored, last_get, lib_vars>>

\* the thread's call ends with result r
Returns(t, r) ==
    /\ tres' = [tres EXCEPT ![t] = r]
    /\ ops_done' = [ops_done EXCEPT ![t] = @ + 1]

\* a thread calls get(key, ttl) or set(key, value)
Call(t, kind, key, ttl, value) ==
    /\ pc = "threads"
    /\ tpc[t] = "idle"
    /\ ops_done[t] < MaxOps
    /\ top' = [top EXCEPT ![t] = [kind |-> kind, key |-> key, ttl |-> ttl, value |-> value]]
    /\ tres' = [tres EXCEPT ![t] = "none"]
    /\ set_values' = IF kind = "set"
                     THEN [set_values EXCEPT ![key] = @ \cup {value}]
                     ELSE set_values
    /\ tpc' = [tpc EXCEPT ![t] =
                 IF cache_impl = "TTLCache" THEN "acquire"
                 ELSE IF kind = "get" THEN "cm_in" ELSE "cm_set"]
    /\ UNCHANGED <<now, cache, timestamps, lock, tlocal, ops_done>>
    /\ ThreadFrame

\* with self._lock:
Acquire(t) ==
    /\ tpc[t] = "acquire"
    /\ lock = 0
    /\ lock' = t
    /\ tpc' = [tpc EXCEPT ![t] = IF top[t].kind = "get" THEN "g_in" ELSE "s_val"]
    /\ UNCHANGED <<now, cache, timestamps, top, tlocal, tres, ops_done, set_values>>
    /\ ThreadFrame

\* TTLCache.get: if key not in self._cache: return None
CheckKey(t) ==
    /\ tpc[t] = "g_in"
    /\ IF cache[top[t].key] = "absent"
       THEN /\ tres' = [tres EXCEPT ![t] = "absent"]
            /\ tpc' = [tpc EXCEPT ![t] = "release"]
       ELSE /\ tpc' = [tpc EXCEPT ![t] = "g_age"]
            /\ UNCHANGED tres
    /\ UNCHANGED <<now, cache, timestamps, lock, top, tlocal, ops_done, set_values>>
    /\ ThreadFrame

\* TTLCache.get: age = time.time() - self._timestamps[key]; if age > ...
CheckAge(t) ==
    /\ tpc[t] = "g_age"
    /\ IF timestamps[top[t].key] = -1
       THEN /\ tres' = [tres EXCEPT ![t] = "KeyError"]
            /\ tpc' = [tpc EXCEPT ![t] = "release"]
       ELSE /\ tpc' = [tpc EXCEPT ![t] =
                        IF ttl_expired(now - timestamps[top[t].key], top[t].ttl)
                        THEN "g_del_val" ELSE "g_ret"]
            /\ UNCHANGED tres
    /\ UNCHANGED <<now, cache, timestamps, lock, top, tlocal, ops_done, set_values>>
    /\ ThreadFrame

\* TTLCache.get: del self._cache[key]
DeleteValue(t) ==
    /\ tpc[t] = "g_del_val"
    /\ IF cache[top[t].key] = "absent"
       THEN /\ tres' = [tres EXCEPT ![t] = "KeyError"]
            /\ tpc' = [tpc EXCEPT ![t] = "release"]
            /\ UNCHANGED cache
       ELSE /\ cache' = [cache EXCEPT ![top[t].key] = "absent"]
            /\ tpc' = [tpc EXCEPT ![t] = "g_del_ts"]
            /\ UNCHANGED tres
    /\ UNCHANGED <<now, timestamps, lock, top, tlocal, ops_done, set_values>>
    /\ ThreadFrame

\* TTLCache.get: del self._timestamps[key]; return None
DeleteTimestamp(t) ==
    /\ tpc[t] = "g_del_ts"
    /\ IF timestamps[top[t].key] = -1
       THEN /\ tres' = [tres EXCEPT ![t] = "KeyError"]
            /\ UNCHANGED timestamps
       ELSE /\ timestamps' = [timestamps EXCEPT ![top[t].key] = -1]
            /\ tres' = [tres EXCEPT ![t] = "absent"]
    /\ tpc' = [tpc EXCEPT ![t] = "release"]
    /\ UNCHANGED <<now, cache, lock, top, tlocal, ops_done, set_values>>
    /\ ThreadFrame

\* TTLCache.get: return self._cache[key]
ReturnValue(t) ==
    /\ tpc[t] = "g_ret"
    /\ tres' = [tres EXCEPT ![t] =
                  IF cache[top[t].key] = "absent" THEN "KeyError" ELSE cache[top[t].key]]
    /\ tpc' = [tpc EXCEPT ![t] = "release"]
    /\ UNCHANGED <<now, cache, timestamps, lock, top, tlocal, ops_done, set_values>>
    /\ ThreadFrame

\* TTLCache.set: self._cache[key] = value
StoreValue(t) ==
    /\ tpc[t] = "s_val"
    /\ cache' = [cache EXCEPT ![top[t].key] = top[t].value]
    /\ tpc' = [tpc EXCEPT ![t] = "s_ts"]
    /\ UNCHANGED <<now, timestamps, lock, top, tlocal, tres, ops_done, set_values>>
    /\ ThreadFrame

\* TTLCache.set: self._timestamps[key] = time.time()
StoreTimestamp(t) ==
    /\ tpc[t] = "s_ts"
    /\ timestamps' = [timestamps EXCEPT ![top[t].key] = now]
    /\ tpc' = [tpc EXCEPT ![t] = "release"]
    /\ UNCHANGED <<now, cache, lock, top, tlocal, tres, ops_done, set_values>>
    /\ ThreadFrame

\* leaving the with block, by a return or by an exception
Release(t) ==
    /\ tpc[t] = "release"
    /\ lock' = IF lock = t THEN 0 ELSE lock
    /\ tpc' = [tpc EXCEPT ![t] = "idle"]
    /\ ops_done' = [ops_done EXCEPT ![t] = @ + 1]
    /\ UNCHANGED <<now, cache, timestamps, top, tlocal, tres, set_values>>
    /\ ThreadFrame

\* CacheManager.get: if key in self._cache:
ManagerCheckKey(t) ==
    /\ tpc[t] = "cm_in"
    /\ IF cache[top[t].key] = "absent"
       THEN /\ Returns(t, "absent")
            /\ tpc' = [tpc EXCEPT ![t] = "idle"]
       ELSE /\ tpc' = [tpc EXCEPT ![t] = "cm_read"]
            /\ UNCHANGED <<tres, ops_done>>
    /\ UNCHANGED <<now, cache, timestamps, lock, top, tlocal, set_values>>
    /\ ThreadFrame

\* CacheManager.get: value, timestamp = self._cache[key]
ManagerRead(t) ==
    /\ tpc[t] = "cm_read"
    /\ IF cache[top[t].key] = "absent"
       THEN /\ Returns(t, "KeyError")
            /\ tpc' = [tpc EXCEPT ![t] = "idle"]
            /\ UNCHANGED tlocal
       ELSE /\ tlocal' = [tlocal EXCEPT ![t] = [value |-> cache[top[t].key],
                                               timestamp |-> timestamps[top[t].key]]]
            /\ tpc' = [tpc EXCEPT ![t] = "cm_cmp"]
            /\ UNCHANGED <<tres, ops_done>>
    /\ UNCHANGED <<now, cache, timestamps, lock, top, set_values>>
    /\ ThreadFrame

\* CacheManager.get: if time.time() - timestamp < self._ttl_seconds: return value
ManagerCompare(t) ==
    /\ tpc[t] = "cm_cmp"
    /\ IF now - tlocal[t].timestamp < ttl_seconds
       THEN /\ Returns(t, tlocal[t].value)
            /\ tpc' = [tpc EXCEPT ![t] = "idle"]
       ELSE /\ tpc' = [tpc EXCEPT ![t] = "cm_del"]
            /\ UNCHANGED <<tres, ops_done>>
    /\ UNCHANGED <<now, cache, timestamps, lock, top, tlocal, set_values>>
    /\ ThreadFrame

\* CacheManager.get: del self._cache[key]; return None
ManagerDelete(t) ==
    /\ tpc[t] = "cm_del"
    /\ IF cache[top[t].key] = "absent"
       THEN /\ Returns(t, "KeyError")
            /\ UNCHANGED <<cache, timestamps>>
       ELSE /\ cache' = [cache EXCEPT ![top[t].key] = "absent"]
            /\ timestamps' = [timestamps EXCEPT ![top[t].key] = -1]
            /\ Returns(t, "absent")
    /\ tpc' = [tpc EXCEPT ![t] = "idle"]
    /\ UNCHANGED <<now, lock, top, tlocal, set_values>>
    /\ ThreadFrame

\* CacheManager.set: self._cache[key] = (value, time.time())
ManagerSet(t) ==
    /\ tpc[t] = "cm_set"
    /\ cache' = [cache EXCEPT ![top[t].key] = top[t].value]
    /\ timestamps' = [timestamps EXCEPT ![top[t].key] = now]
    /\ Returns(t, "absent")
    /\ tpc' = [tpc EXCEPT ![t] = "idle"]
    /\ UNCHANGED <<now, lock, top, tlocal, set_values>>
    /\ ThreadFrame

\* time passes: one default ttl
Advance ==
    /\ pc = "threads"
    /\ now < MaxAdvances * default_ttl
    /\ now' = now + default_ttl
    /\ UNCHANGED <<cache, timestamps, thread_vars>>
    /\ ThreadFrame

NextThreads ==
    \/ \E t \in Threads, kind \in {"get", "set"}, k \in ThreadKeys, ttl \in ThreadTtls,
          v \in Values : Call(t, kind, k, ttl, v)
    \/ \E t \in Threads : Acquire(t)
    \/ \E t \in Threads : CheckKey(t)
    \/ \E t \in Threads : CheckAge(t)
    \/ \E t \in Threads : DeleteValue(t)
    \/ \E t \in Threads : DeleteTimestamp(t)
    \/ \E t \in Threads : ReturnValue(t)
    \/ \E t \in Threads : StoreValue(t)
    \/ \E t \in Threads : StoreTimestamp(t)
    \/ \E t \in Threads : Release(t)
    \/ \E t \in Threads : ManagerCheckKey(t)
    \/ \E t \in Threads : ManagerRead(t)
    \/ \E t \in Threads : ManagerCompare(t)
    \/ \E t \in Threads : ManagerDelete(t)
    \/ \E t \in Threads : ManagerSet(t)
    \/ Advance

SpecThreads == InitThreads /\ [][NextThreads]_vars

\* the positions at which a thread is about to change the cache
MutatingSteps == {"g_del_val", "g_del_ts", "s_val", "s_ts", "cm_del", "cm_set"}

\* the positions at which a get looks at the entry of its key
ObservingSteps == {"g_in", "g_age", "g_ret", "cm_in", "cm_read"}

\* every mutation is made by the holder of the mutex
MutexHeld == \A t \in Threads : tpc[t] \in MutatingSteps => lock = t

\* a get sees a value and its timestamp together or not at all
NoTornEntry ==
    \A t \in Threads : tpc[t] \in ObservingSteps =>
        (cache[top[t].key] = "absent" <=> timestamps[top[t].key] = -1)

\* a finished get returned absent or a value passed to set for its key
GetReturnsSetValue ==
    \A t \in Threads : (top[t].kind = "get" /\ tres[t] # "none") =>
        tres[t] \in {"absent"} \cup set_values[top[t].key]

\* C20: under every interleaving of concurrent get and set calls from several
\* threads, each cache mutation is performed while holding the single cache
\* mutex, so a get never observes a key that has a value without a timestamp
\* (or the reverse) and returns either absent or a value previously passed to
\* set for that key.
C20_MutationsUnderMutex ==
    /\ MutexHeld
    /\ NoTornEntry
    /\ GetReturnsSetValue

\* ---------------------------------------------------------------------------
\* The subagent detector
\* ---------------------------------------------------------------------------

MaxPromptLen == 2

MaxDetectCalls == 2

\* the weights of _calculate_agent_scores, in halves: 5.0, 3.0, 2.0, 2.5, 0.5
explicit_operation_score == 10

context_flag_score == 6

trigger_score == 4

pattern_score == 5

baseline_score == 1

\* confidence=0.3 of the early returns, in hundredths
malformed_confidence == 30

\* the agents, in the order AGENT_CAPABILITIES declares them
AGENTS ==
    <<"context-fetcher", "date-checker", "file-creator", "git-workflow", "test-runner",
      "general-purpose">>

AgentSet == {AGENTS[i] : i \in 1..Len(AGENTS)}

\* the words a prompt is made of, and the operation tags
PromptWords ==
    {"git", "commit", "tests", "Tests", "run", "search", "for", "update", "today", "create",
     "file", "explain"}

Operations == {"", "git_workflow", "test", "update", "unknown", "file_creation"}

ContextFlags ==
    {"involves_git", "involves_testing", "requires_current_date", "involves_multiple_files",
     "requires_template"}

FlagSets ==
    {{}, {"involves_git"}, {"involves_testing"}, {"requires_current_date"},
     {"involves_git", "involves_testing"}, {"involves_multiple_files", "requires_template"},
     ContextFlags}

\* a in w, for a word w of the vocabulary
Contains(w, a) ==
    \/ w = a
    \/ <<w, a>> \in {<<"explain", "in">>, <<"file_creation", "file">>,
                     <<"git_workflow", "git">>, <<"git_workflow", "work">>,
                     <<"tests", "test">>, <<"unknown", "now">>, <<"update", "date">>}

\* w.endswith(a)
EndsWith(w, a) == w = a \/ <<w, a>> \in {<<"update", "date">>}

\* w.startswith(a)
BeginsWith(w, a) ==
    \/ w = a
    \/ <<w, a>> \in {<<"file_creation", "file">>, <<"git_workflow", "git">>,
                     <<"tests", "test">>}

\* what a trigger or a part of a pattern looks for: a substring without a
\* blank, two words separated by one blank, or a word followed by \s+\w+
W(a) == [kind |-> "word", first |-> a, second |-> ""]

Ph(a, b) == [kind |-> "phrase", first |-> a, second |-> b]

ThenWord(a) == [kind |-> "then_word", first |-> a, second |-> ""]

\* the atom occurs in the text starting in word i
AtomAt(ws, i, atom) ==
    CASE atom.kind = "word" -> Contains(ws[i], atom.first)
      [] atom.kind = "phrase" ->
            /\ i < Len(ws)
            /\ EndsWith(ws[i], atom.first)
            /\ BeginsWith(ws[i + 1], atom.second)
      [] atom.kind = "then_word" -> i < Len(ws) /\ EndsWith(ws[i], atom.first)

\* the last word the atom reaches into
LastWordOf(i, atom) == IF atom.kind = "phrase" THEN i + 1 ELSE i

\* re.Pattern.search for a pattern whose parts are joined by ".*"; no word of
\* the vocabulary holds two parts of one pattern
RECURSIVE search_parts(_, _, _, _)
search_parts(parts, ws, k, from) ==
    IF k > Len(parts) THEN TRUE
    ELSE \E i \in from..Len(ws) : \E atom \in parts[k] :
            /\ AtomAt(ws, i, atom)
            /\ search_parts(parts, ws, k + 1, LastWordOf(i, atom) + 1)

\* trigger in combined_text
trigger_in(atom, ws) == \E i \in 1..Len(ws) : AtomAt(ws, i, atom)

AGENT_CAPABILITIES ==
    "context-fetcher" :>
        [triggers |->
            <<W("search"), W("find"), W("locate"), W("grep"),
              Ph("analyze", "codebase"), Ph("look", "for"), W("scan"), W("explore"),
              Ph("review", "code"), W("examine")>>,
         patterns |->
            <<
              \* search.*(?:for|through|in)
              <<{W("search")},
                {W("for"), W("through"), W("in")}>>,
              \* find.*(?:all|every|instances|occurrences)
              <<{W("find")},
                {W("all"), W("every"), W("instances"), W("occurrences")}>>,
              \* (?:analyze|examine|review).*(?:code|codebase|files)
              <<{W("analyze"), W("examine"), W("review")},
                {W("code"), W("codebase"), W("files")}>>,
              \* look.*(?:for|through).*files?
              <<{W("look")},
                {W("for"), W("through")},
                {W("file")}>> >>]
    @@
    "date-checker" :>
        [triggers |->
            <<W("date"), W("today"), Ph("current", "date"), W("now"), W("time"),
              W("yesterday"), W("tomorrow"), W("week"), W("month"), W("year")>>,
         patterns |->
            <<
              \* (?:what'?s?|get|current|today'?s?).*date
              <<{W("what"), W("get"), W("current"), W("today")},
                {W("date")}>>,
              \* (?:create|make|new).*(?:with|using).*date
              <<{W("create"), W("make"), W("new")},
                {W("with"), W("using")},
                {W("date")}>>,
              \* (?:folder|file|directory).*date
              <<{W("folder"), W("file"), W("directory")},
                {W("date")}>> >>]
    @@
    "file-creator" :>
        [triggers |->
            <<Ph("create", "file"), Ph("new", "file"), W("generate"), W("scaffold"),
              W("template"), W("boilerplate"), W("component"), W("module")>>,
         patterns |->
            <<
              \* (?:create|make|new|generate).*(?:file|component|module|class)
              <<{W("create"), W("make"), W("new"), W("generate")},
                {W("file"), W("component"), W("module"), W("class")}>>,
              \* (?:scaffold|template|boilerplate)
              <<{W("scaffold"), W("template"), W("boilerplate")}>>,
              \* (?:add|write).*(?:new|fresh).*(?:file|component)
              <<{W("add"), W("write")},
                {W("new"), W("fresh")},
                {W("file"), W("component")}>> >>]
    @@
    "git-workflow" :>
        [triggers |->
            <<W("git"), W("commit"), W("push"), W("pull"), W("merge"), W("branch"),
              W("pr"), Ph("pull", "request"), W("github"), W("repository"), W("clone")>>,
         patterns |->
            <<
              \* git\s+\w+
              <<{ThenWord("git")}>>,
              \* (?:create|make|open).*(?:pr|pull request)
              <<{W("create"), W("make"), W("open")},
                {W("pr"), Ph("pull", "request")}>>,
              \* (?:commit|push|pull|merge|branch)
              <<{W("commit"), W("push"), W("pull"), W("merge"), W("branch")}>>,
              \* (?:github|repository|repo)
              <<{W("github"), W("repository"), W("repo")}>> >>]
    @@
    "test-runner" :>
        [triggers |->
            <<W("test"), W("tests"), W("testing"), W("pytest"), W("unittest"),
              W("coverage"), Ph("run", "tests"), W("validate"), W("verify")>>,
         patterns |->
            <<
              \* (?:run|execute|perform).*test
              <<{W("run"), W("execute"), W("perform")},
                {W("test")}>>,
              \* test.*(?:pass|fail|coverage)
              <<{W("test")},
                {W("pass"), W("fail"), W("coverage")}>>,
              \* (?:verify|validate|check).*(?:work|implementation|code)
              <<{W("verify"), W("validate"), W("check")},
                {W("work"), W("implementation"), W("code")}>>,
              \* (?:pytest|unittest|jest|mocha)
              <<{W("pytest"), W("unittest"), W("jest"), W("mocha")}>> >>]
    @@
    "general-purpose" :>
        [triggers |->
            <<>>,
         patterns |->
            <<>>]

\* the keyword looked for in the operation, per agent
operation_keyword(agent) ==
    CASE agent = "git-workflow" -> "git"
      [] agent = "test-runner" -> "test"
      [] agent = "file-creator" -> "file_creation"
      [] agent = "date-checker" -> "date"
      [] agent = "context-fetcher" -> "search"
      [] OTHER -> "none"

\* the context flag of an agent
context_flag(agent) ==
    CASE agent = "git-workflow" -> "involves_git"
      [] agent = "test-runner" -> "involves_testing"
      [] agent = "date-checker" -> "requires_current_date"
      [] agent = "context-fetcher" -> "involves_multiple_files"
      [] agent = "file-creator" -> "requires_template"
      [] OTHER -> "none"

\* combined_text = f"{prompt} {operation}", lowered, as words
combined_text(ctx) ==
    LowerAll(ctx.prompt) \o (IF ctx.operation = "" THEN <<>> ELSE <<ctx.operation>>)

MatchedTriggers(agent, ws) ==
    {i \in 1..Len(AGENT_CAPABILITIES[agent].triggers) :
        trigger_in(AGENT_CAPABILITIES[agent].triggers[i], ws)}

MatchedPatterns(agent, ws) ==
    {i \in 1..Len(AGENT_CAPABILITIES[agent].patterns) :
        search_parts(AGENT_CAPABILITIES[agent].patterns[i], ws, 1, 1)}

\* SubagentDetector._calculate_agent_scores
calculate_agent_scores(ctx) ==
    LET ws == combined_text(ctx)
        score(agent) ==
            (IF /\ ctx.operation # ""
                /\ agent # "general-purpose"
                /\ Contains(ctx.operation, operation_keyword(agent))
             THEN explicit_operation_score ELSE 0)
            + (IF context_flag(agent) \in ctx.flags THEN context_flag_score ELSE 0)
            + trigger_score * Cardinality(MatchedTriggers(agent, ws))
            + pattern_score * Cardinality(MatchedPatterns(agent, ws))
        general == score("general-purpose")
    IN  "context-fetcher" :> score("context-fetcher")
        @@ "date-checker" :> score("date-checker")
        @@ "file-creator" :> score("file-creator")
        @@ "git-workflow" :> score("git-workflow")
        @@ "test-runner" :> score("test-runner")
        @@ "general-purpose" :> (IF general = 0 THEN baseline_score ELSE general)

MaxScore(scores) == CHOOSE v \in {scores[a] : a \in AgentSet} : \A a \in AgentSet : scores[a] <= v

\* a selection that gives up when two agents share the highest score
max_item_strict(scores) ==
    IF Cardinality({a \in AgentSet : scores[a] = MaxScore(scores)}) > 1 THEN "none"
    ELSE CHOOSE a \in AgentSet : scores[a] = MaxScore(scores)

\* a selection in which the agent declared last wins a tie
max_item_last(scores) ==
    AGENTS[CHOOSE i \in 1..Len(AGENTS) :
        /\ scores[AGENTS[i]] = MaxScore(scores)
        /\ \A j \in (i + 1)..Len(AGENTS) : scores[AGENTS[j]] # MaxScore(scores)]

\* max(scores.items(), key=lambda x: x[1]): the first item with the largest score
max_item(scores) ==
    AGENTS[CHOOSE i \in 1..Len(AGENTS) :
        /\ scores[AGENTS[i]] = MaxScore(scores)
        /\ \A j \in 1..(i - 1) : scores[AGENTS[j]] # MaxScore(scores)]

\* sorted(scores.values(), reverse=True)[1]
second_best(scores) ==
    CHOOSE v \in {scores[a] : a \in AgentSet} :
        /\ Cardinality({a \in AgentSet : scores[a] >= v}) >= 2
        /\ \A a \in AgentSet :
                scores[a] > v => Cardinality({b \in AgentSet : scores[b] >= scores[a]}) < 2

Min(a, b) == IF a < b THEN a ELSE b

\* a confidence that counts a score of exactly twice the second as a clear win
calculate_confidence_inclusive(scores, best_score) ==
    IF best_score = 0 THEN 30
    ELSE IF best_score >= second_best(scores) * 2
         THEN Min(95, 50 + 5 * best_score)
         ELSE Min(75, 30 + 5 * best_score)

\* SubagentDetector._calculate_confidence, in hundredths: best_score / 10 is
\* 5 hundredths per half point
calculate_confidence(scores, best_score) ==
    IF best_score = 0 THEN 30
    ELSE IF best_score > second_best(scores) * 2
         THEN Min(95, 50 + 5 * best_score)
         ELSE Min(75, 30 + 5 * best_score)

Detection(agent, confidence, warning) ==
    [agent |-> agent, confidence |-> confidence, warning |-> warning, raised |-> FALSE]

\* the scoring part of detect, given the score table of the context
detect_scored(scores) ==
    LET best_agent == max_item(scores)
    IN  Detection(best_agent, calculate_confidence(scores, MaxScore(scores)), FALSE)

\* a detect without the early returns
detect_unguarded(ctx, scores) == detect_scored(calculate_agent_scores(ctx))

\* SubagentDetector.detect, given the score table of the context
detect(ctx, scores) ==
    IF ctx.kind = "None"
    THEN Detection("general-purpose", malformed_confidence, FALSE)
    ELSE IF ctx.kind \notin {"empty_dict", "dict"}
    THEN Detection("general-purpose", malformed_confidence, TRUE)
    ELSE IF ctx.kind = "empty_dict"
    THEN Detection("general-purpose", malformed_confidence, FALSE)
    ELSE detect_scored(scores)

Context(kind, prompt, operation, flags) ==
    [kind |-> kind, prompt |-> prompt, operation |-> operation, flags |-> flags]

MalformedKinds == {"None", "str", "list", "empty_dict"}

Contexts ==
    {Context(k, <<>>, "", {}) : k \in MalformedKinds}
    \cup {Context("dict", p, o, f) :
            p \in SeqsUpTo(PromptWords, MaxPromptLen), o \in Operations, f \in FlagSets}

InitDetect ==
    /\ CycleIdle
    /\ pc = "detect"
    /\ DispatchIdle
    /\ StatusIdle
    /\ PretoolIdle
    /\ CacheIdle
    /\ ResolverIdle
    /\ context \in Contexts
    /\ detected = NoDetection
    /\ first_detected = NoDetection
    /\ detect_calls = 0
    /\ last_scores = NoScores

\* one call of detect(context)
Detect ==
    /\ pc = "detect"
    /\ detect_calls < MaxDetectCalls
    /\ last_scores' = IF context.kind = "dict" THEN calculate_agent_scores(context)
                      ELSE NoScores
    /\ detected' = detect(context, last_scores')
    /\ first_detected' = IF detect_calls = 0 THEN detected' ELSE first_detected
    /\ detect_calls' = detect_calls + 1
    /\ UNCHANGED <<context, cycle_vars, dispatch_vars, status_vars, pretool_vars, cache_vars,
                   resolver_vars>>

SpecDetect == InitDetect /\ [][Detect]_vars

Detected == detect_calls > 0

Malformed == context.kind \in MalformedKinds

\* C21: route(None), route of an empty mapping and route of a non-mapping
\* value each return the fallback (general-purpose) handler with confidence
\* exactly 0.3, without raising.
C21_MalformedGivesFallback ==
    (Detected /\ Malformed) =>
        /\ detected.agent = "general-purpose"
        /\ detected.confidence = 30
        /\ ~detected.raised

C21_Witness ==
    /\ Detected
    /\ context.kind = "empty_dict"
    /\ detected.agent = "general-purpose"

\* C22: for each kind of malformed context (None, a non-mapping value, an
\* empty mapping), the result returned by route carries a diagnostic warning
\* field.
C22_MalformedCarriesWarning ==
    (Detected /\ Malformed) => detected.warning

\* a well-formed, non-empty context
WellFormed == context.kind = "dict"

\* the agents sharing the highest score
TiedIn(scores) == LET best == MaxScore(scores) IN {a \in AgentSet : scores[a] = best}

Tied == TiedIn(last_scores)

\* the place of an agent in the declaration order
Declared(agent) == CHOOSE i \in 1..Len(AGENTS) : AGENTS[i] = agent

\* C23: for every context value, route returns a result that names exactly one
\* handler from the closed set of declared profiles (never an absent or empty
\* result) and never raises; the fallback profile's floor score of 0.5
\* guarantees a candidate always exists.
C23_AlwaysOneDeclaredHandler ==
    Detected =>
        /\ detected.agent \in AgentSet
        /\ ~detected.raised
        /\ WellFormed => last_scores["general-purpose"] >= baseline_score

\* the fallback wins through its floor score alone
C23_Witness ==
    /\ Detected
    /\ WellFormed
    /\ detected.agent = "general-purpose"
    /\ LET scores == last_scores
       IN  \A a \in AgentSet \ {"general-purpose"} : scores[a] = 0

\* C24: when two or more profiles share the highest cumulative score, route
\* selects the one declared first in the profile table, and repeated calls
\* with the same context always select that same profile.
C24_TieGoesToFirstDeclared ==
    (Detected /\ WellFormed) =>
        LET tied == Tied
        IN  /\ detected.agent \in tied
            /\ \A a \in tied : Declared(detected.agent) <= Declared(a)
            /\ detected.agent = first_detected.agent

\* a second call on a context in which two agents tie
C24_Witness ==
    /\ detect_calls = MaxDetectCalls
    /\ WellFormed
    /\ detected.agent = "git-workflow"
    /\ LET tied == Tied IN Cardinality(tied) >= 2 /\ "test-runner" \in tied

\* C25: for a well-formed non-empty context, route's confidence is derived from
\* the two highest scores best and second as: 0.3 if best = 0; otherwise
\* min(0.95, 0.5 + best/10) if best > 2 x second; otherwise
\* min(0.75, 0.3 + best/10).
C25_ConfidenceFromTopTwo ==
    (Detected /\ WellFormed) =>
        LET scores == last_scores
            best == MaxScore(scores)
            second == second_best(scores)
        IN  detected.confidence =
                IF best = 0 THEN 30
                ELSE IF best > 2 * second THEN Min(95, 50 + 5 * best)
                ELSE Min(75, 30 + 5 * best)

\* the best score is exactly twice the second
C25_Witness ==
    /\ Detected
    /\ WellFormed
    /\ detected.confidence = 70
    /\ LET scores == last_scores
       IN  MaxScore(scores) = 2 * second_best(scores)

\* the score the claim gives an agent
ClaimedScore(agent) ==
    (IF context.operation = operation_keyword(agent) THEN explicit_operation_score ELSE 0)
    + (IF context_flag(agent) \in context.flags THEN context_flag_score ELSE 0)
    + trigger_score * Cardinality(MatchedTriggers(agent, combined_text(context)))
    + pattern_score * Cardinality(MatchedPatterns(agent, combined_text(context)))

\* C26: each profile's score is the sum of 5.0 if the explicit operation tag
\* exactly matches that profile's tag, 3.0 for each matching boolean context
\* flag, 2.0 for each distinct matched trigger word and 2.5 for each matched
\* regex pattern, with no other contribution.
C26_ScoreIsSumOfFourSignals ==
    (Detected /\ WellFormed) =>
        LET scores == last_scores
        IN  \A agent \in AgentSet : scores[agent] = ClaimedScore(agent)

-----------------------------------------------------------------------------
(* ProjectRootResolver (scripts/project_root_resolver.py): one instance,    *)
(* its cache, and the environment variable changing between calls.          *)

\* the directories and files of the file system the resolver looks at
Directories == {"/", "/proj1", "/proj1/src", "/proj2", "/plain"}

Files == {"/proj1/src/app.py"}

\* the directories holding a .agent-os entry, and those holding a .git entry
AgentOsRoots == {"/proj1"}

GitRoots == {"/proj1", "/proj2"}

\* os.path.abspath: the normalised path (a trailing separator is dropped)
abspath(path) == IF path = "/proj2/" THEN "/proj2" ELSE path

\* os.path.exists
exists(path) == abspath(path) \in Directories \cup Files

\* os.path.dirname
dirname(path) ==
    CASE path = "/proj1/src/app.py" -> "/proj1/src"
      [] path = "/proj1/src" -> "/proj1"
      [] path = "/plain/new.py" -> "/plain"
      [] path = "/missing/x.py" -> "/missing"
      [] OTHER -> "/"

\* a marker of self._markers exists in the directory
has_marker(path) == abspath(path) \in AgentOsRoots \cup GitRoots

\* the values of CLAUDE_PROJECT_DIR ("" for unset)
EnvDirs == {"", "/proj1", "/proj2/", "/proj1/src", "/missing"}

\* the fields of a payload, in the order of preference
PayloadFields == <<"workspaceDir", "projectRoot", "rootDir">>

\* hook_payload None or {}: both are falsy
NoPayload == [workspaceDir |-> "absent", projectRoot |-> "absent", rootDir |-> "absent"]

\* hook payloads: the fields with their values, "absent" for a missing one
HookPayloads ==
    {NoPayload,
     [workspaceDir |-> "/proj2/", projectRoot |-> "absent", rootDir |-> "absent"],
     [workspaceDir |-> "/plain", projectRoot |-> "/missing", rootDir |-> "/proj1"]}

FilePaths == {"None", "/proj1/src/app.py", "/plain/new.py", "/missing/x.py"}

Cwds == {"/proj1/src", "/plain", "/proj2"}

\* what git rev-parse --show-toplevel gives in the working directory
git_toplevel(cwd) ==
    CASE cwd = "/proj1/src" -> "/proj1"
      [] cwd = "/proj2" -> "/proj2"
      [] OTHER -> "None"

\* ProjectRootResolver._resolve_from_env
resolve_from_env(env_dir) ==
    IF env_dir # "" /\ exists(env_dir) THEN abspath(env_dir) ELSE "None"

\* ProjectRootResolver._resolve_from_hook_payload: the first field, in the
\* order of preference, that names an existing directory with a marker
RECURSIVE payload_from(_, _)
payload_from(payload, i) ==
    IF i > Len(PayloadFields) THEN "None"
    ELSE LET path == payload[PayloadFields[i]]
         IN  IF path # "absent" /\ exists(path) /\ has_marker(path)
             THEN abspath(path)
             ELSE payload_from(payload, i + 1)

resolve_from_hook_payload(payload) == payload_from(payload, 1)

\* ProjectRootResolver._resolve_from_git; a failing git gives None
resolve_from_git(cwd, git_works) ==
    IF git_works /\ git_toplevel(cwd) # "None" /\ exists(git_toplevel(cwd))
    THEN abspath(git_toplevel(cwd))
    ELSE "None"

\* the loop of _resolve_by_ascent
RECURSIVE ascend(_)
ascend(current) ==
    IF has_marker(current) THEN current
    ELSE IF dirname(current) = current THEN "None"
    ELSE ascend(dirname(current))

\* ProjectRootResolver._resolve_by_ascent
resolve_by_ascent(start_path) ==
    IF start_path \in Files THEN ascend(abspath(dirname(start_path)))
    ELSE IF ~exists(start_path)
         THEN IF ~exists(dirname(start_path)) THEN "None"
              ELSE ascend(abspath(dirname(start_path)))
    ELSE ascend(abspath(start_path))

\* the call's arguments and the process state it reads
ResolveCalls ==
    [file_path : FilePaths, hook_payload : HookPayloads, use_git_fallback : BOOLEAN,
     cwd : Cwds, git_works : BOOLEAN]

\* ProjectRootResolver.resolve below the cache test: the priorities
resolve_priorities(env_dir, call) ==
    LET from_env == resolve_from_env(env_dir)
        from_payload == IF call.hook_payload = NoPayload THEN "None"
                        ELSE resolve_from_hook_payload(call.hook_payload)
        start_path == IF call.file_path # "None" THEN call.file_path ELSE call.cwd
        from_git == IF call.use_git_fallback
                    THEN resolve_from_git(call.cwd, call.git_works)
                    ELSE "None"
        from_ascent == resolve_by_ascent(start_path)
    IN  IF from_env # "None" THEN from_env
        ELSE IF from_payload # "None" THEN from_payload
        ELSE IF from_git # "None" /\ from_git \in AgentOsRoots THEN from_git
        ELSE IF from_ascent # "None" THEN from_ascent
        ELSE abspath(call.cwd)

\* resolve without the cache test
resolve_uncached(cached, env_dir, call) == resolve_priorities(env_dir, call)

\* ProjectRootResolver.resolve: the root returned, which is also self._cache
\* after the call
resolve(cached, env_dir, call) ==
    IF cached # "None" THEN cached ELSE resolve_priorities(env_dir, call)

InitResolve ==
    /\ CycleIdle
    /\ pc = "resolve"
    /\ DispatchIdle
    /\ StatusIdle
    /\ PretoolIdle
    /\ CacheIdle
    /\ DetectorIdle
    /\ CLAUDE_PROJECT_DIR \in EnvDirs
    /\ ResolverNew

ResolveFrame == UNCHANGED <<cycle_vars, dispatch_vars, status_vars, pretool_vars,
                            cache_vars, detector_vars>>

\* one call of resolver.resolve(...)
Resolve ==
    /\ pc = "resolve"
    /\ \E call \in ResolveCalls :
        /\ resolved' = resolve(resolver_cache, CLAUDE_PROJECT_DIR, call)
        /\ resolver_cache' = resolved'
        /\ first_resolved' = IF first_resolved = "none" THEN resolved' ELSE first_resolved
        /\ last_resolve' = [called |-> TRUE,
                            repeat |-> first_resolved # "none",
                            fresh |-> resolve_priorities(CLAUDE_PROJECT_DIR, call)]
    /\ UNCHANGED CLAUDE_PROJECT_DIR
    /\ ResolveFrame

\* ProjectRootResolver.clear_cache
ClearCache ==
    /\ pc = "resolve"
    /\ resolver_cache' = "None"
    /\ first_resolved' = "none"
    /\ last_resolve' = NoResolve
    /\ UNCHANGED <<CLAUDE_PROJECT_DIR, resolved>>
    /\ ResolveFrame

\* os.environ['CLAUDE_PROJECT_DIR'] changes between two calls
SetEnv ==
    /\ pc = "resolve"
    /\ \E env_dir \in EnvDirs \ {CLAUDE_PROJECT_DIR} : CLAUDE_PROJECT_DIR' = env_dir
    /\ UNCHANGED <<resolver_cache, resolved, first_resolved, last_resolve>>
    /\ ResolveFrame

NextResolve == Resolve \/ ClearCache \/ SetEnv

SpecResolve == InitResolve /\ [][NextResolve]_vars

\* C30: on one resolver, every resolve call after the first returns the root
\* of the first call, even if CLAUDE_PROJECT_DIR changed in between, until
\* clear_cache is called; the first resolve after clear_cache (as the first
\* of all) computes the root from the environment of that call.
C30_CachedUntilCleared ==
    last_resolve.called =>
        /\ resolved = first_resolved
        /\ ~last_resolve.repeat => resolved = last_resolve.fresh

\* a repeated call that the changed environment would have answered otherwise
C30_Witness ==
    /\ last_resolve.called
    /\ last_resolve.repeat
    /\ resolved = "/proj1"
    /\ CLAUDE_PROJECT_DIR = "/proj2/"
    /\ last_resolve.fresh = "/proj2"

\* no specialised agent scores: general-purpose wins through its floor alone
OnlyFloor ==
    LET scores == last_scores
    IN  \A agent \in AgentSet \ {"general-purpose"} :
            scores[agent] = 0 /\ ClaimedScore(agent) = 0

\* C36: for a well-formed context in which no specialised profile matches any
\* operation tag, context flag, trigger word or pattern, route returns the
\* fallback handler with a confidence below 0.5.
C36_FloorConfidenceBelowHalf ==
    (Detected /\ WellFormed /\ OnlyFloor) =>
        /\ detected.agent = "general-purpose"
        /\ detected.confidence < 50

====
